---- MODULE Spec2Model ----
(***************************************************************************)
(* Browser session engine of automail-agent: the two BrowserLauncher       *)
(* variants (src/browser/launchers.py, used by GmailMailer, and            *)
(* src/browser/lunchers.py), their kill-by-port process filter, the        *)
(* temporary automation profile directories and the GmailMailer page       *)
(* handle.  The OS process table and the temp filesystem are shared by all *)
(* sessions.  launch() is split at its await points; everything between    *)
(* two awaits is blocking code and is one step.                            *)
(***************************************************************************)
EXTENDS Integers, Sequences, FiniteSets, TLC

(* ------------------------------ bounds --------------------------------- *)
MaxLaunches == 2
MaxStale == 1

(* ------------------------- program constants --------------------------- *)
DefaultPort == 9222

Sessions == {1, 2}
Ext == 0
Owners == {Ext} \cup Sessions
Families == {"chrome", "firefox"}
(* browser names a caller can ask for; BrowserType has only the two above  *)
BrowserNames == Families \cup {"edge"}
(* sys.platform of the machine                                             *)
Platforms == {"linux", "win32", "darwin", "sunos5"}

(* BrowserConfig.os_type: darwin reaches `return OSType.MACOS`, a member    *)
(* the enum does not have (AttributeError); any other platform raises      *)
(* ValueError                                                              *)
os_type(platform) ==
    CASE platform \in {"linux", "linux2"} -> "linux"
      [] platform \in {"win32", "cygwin", "win64", "win"} -> "windows"
      [] OTHER -> "raise"
Variants == {"launchers", "lunchers"}
Ports == {922, DefaultPort}
None == 0

(* --------------------------- command lines ----------------------------- *)
(* A string is a sequence of tokens; a token is a run of characters that   *)
(* no other token overlaps, so substring search on tokens agrees with      *)
(* substring search on characters for the strings used here.               *)
FLAG == "--remote-debugging-port"

Digit(d) == CASE d = 0 -> "0" [] d = 1 -> "1" [] d = 2 -> "2" [] d = 3 -> "3"
              [] d = 4 -> "4" [] d = 5 -> "5" [] d = 6 -> "6" [] d = 7 -> "7"
              [] d = 8 -> "8" [] d = 9 -> "9"

RECURSIVE Str(_)
Str(n) == IF n < 10 THEN <<Digit(n)>> ELSE Str(n \div 10) \o <<Digit(n % 10)>>

IsSubstring(needle, hay) ==
    \E i \in 0..(Len(hay) - Len(needle)) :
        \A j \in 1..Len(needle) : hay[i + j] = needle[j]

RECURSIVE Join(_)
Join(args) == IF Len(args) = 0 THEN <<>>
              ELSE IF Len(args) = 1 THEN args[1]
              ELSE args[1] \o <<" ">> \o Join(Tail(args))

build_chrome_args(port) ==
    << <<"browser_path">>,
       <<FLAG, "=">> \o Str(port),
       <<"--user-data-dir=", "automation_profile_dir">>,
       <<"--profile-directory=Default">>,
       <<"--no-first-run">>,
       <<"--disable-default-apps">>,
       <<"--disable-features=VizDisplayCompositor">>,
       <<"--disable-background-timer-throttling">>,
       <<"--disable-backgrounding-occluded-windows">>,
       <<"--disable-renderer-backgrounding">> >>

build_firefox_args(port) ==
    << <<"browser_path">>,
       <<FLAG>>, Str(port),
       <<"--profile">>, <<"automation_profile_dir", "/automation-profile">>,
       <<"--no-remote">>,
       <<"--new-instance">> >>

CmdLine(p) == IF p.family = "chrome" THEN build_chrome_args(p.port)
              ELSE build_firefox_args(p.port)

(* f'--remote-debugging-port={port}' in arg, for some arg of the cmdline   *)
PortFilterMatch(port, cmdline) ==
    \E k \in 1..Len(cmdline) : IsSubstring(<<FLAG, "=">> \o Str(port), cmdline[k])

(* process_managers.py joins the cmdline with spaces before searching      *)
JoinedFilterMatch(port, cmdline) ==
    IsSubstring(<<FLAG, "=">> \o Str(port), Join(cmdline))

(* ------------------------------- state --------------------------------- *)
VARIABLES
    launcher,   \* per session: the BrowserLauncher object's fields and its position in launch()
    mailer,     \* per session: GmailMailer.page
    procs,      \* OS process table: per owner (Ext = started outside), the processes in spawn order
    tmpdirs,    \* temp filesystem: per session, for each mkdtemp() it made, whether the directory exists
    hist,       \* per session: last completed operation and what the last launch() did
    nLaunches,  \* launch() calls made so far
    gm,         \* the GmailMailer used through send_gmail(): its fields and the position of the call
    dom,        \* the Gmail page: whether it is still open, and the content of the compose fields
    trail,      \* what the send_email() call has done so far: step results, selectors tried, clicks
    scan,       \* a ProfileManager.get_available_profiles() call: browser, directories on disk, result
    wait,       \* the wait for the debug port after Popen: loop counter, probes made, the port, the process
    ctx,        \* get_page(): the launcher's handles, the tabs of the attached context, the calls made
    conn,       \* a connect_to_gmail() call: position, navigation attempts, what the page shows
    svc,        \* an EmailService.send_email() call, with the route in front of it: inputs, position, outcome
    ses,        \* one GmailMailer over several calls: connect_to_gmail, send_email, close, terminate
    prof,       \* a launch(profile_name) call: the config object, the profile requested, the source profile chosen
    listing     \* a ProfileService.get_available_profiles() call and the list it returns

lvars == <<launcher, mailer, procs, tmpdirs, hist, nLaunches>>

mvars == <<gm, dom, trail>>

pvars == <<scan>>

wvars == <<wait>>

tvars == <<ctx>>

cvars == <<conn>>

svars == <<svc>>

evars == <<ses>>

fvars == <<prof>>

gvars == <<listing>>

vars == <<launcher, mailer, procs, tmpdirs, hist, nLaunches, gm, dom, trail, scan, wait, ctx,
          conn, svc, ses, prof, listing>>

(* what the actions of one part leave unchanged                            *)
lframe == <<mvars, pvars, wvars, tvars, cvars, svars, evars, fvars, gvars>>

mframe == <<lvars, pvars, wvars, tvars, cvars, svars, evars, fvars, gvars>>

pframe == <<lvars, mvars, wvars, tvars, cvars, svars, evars, fvars, gvars>>

wframe == <<lvars, mvars, pvars, tvars, cvars, svars, evars, fvars, gvars>>

tframe == <<lvars, mvars, pvars, wvars, cvars, svars, evars, fvars, gvars>>

cframe == <<lvars, mvars, pvars, wvars, tvars, svars, evars, fvars, gvars>>

sframe == <<lvars, mvars, pvars, wvars, tvars, cvars, evars, fvars, gvars>>

eframe == <<lvars, mvars, pvars, wvars, tvars, cvars, svars, fvars, gvars>>

fframe == <<lvars, mvars, pvars, wvars, tvars, cvars, svars, evars, gvars>>

gframe == <<lvars, mvars, pvars, wvars, tvars, cvars, svars, evars, fvars>>

(* the user's real profile directory (self.original_profile_dir); a        *)
(* temporary directory is named by the session that made it and its index  *)
(* in tmpdirs                                                              *)
OriginalDir == <<Ext, 0>>

(* a browser started outside a session runs on the user's real profile     *)
ProcRec(fam, port, alive, listening, denied, busy) ==
    [family |-> fam, port |-> port, alive |-> alive, listening |-> listening,
     denied |-> denied, busyAtSpawn |-> busy, killer |-> None, killPort |-> None,
     profile_dir |-> OriginalDir]

StaleProcs ==
    { ProcRec(f, p, TRUE, TRUE, d, FALSE) : f \in Families, p \in Ports, d \in BOOLEAN }

RECURSIVE SeqsUpTo(_, _)
SeqsUpTo(S, n) ==
    IF n = 0 THEN { <<>> }
    ELSE SeqsUpTo(S, n - 1) \cup
         { Append(q, x) : q \in { r \in SeqsUpTo(S, n - 1) : Len(r) = n - 1 }, x \in S }

NewLauncher(variant, fam, portArg) ==
    [variant |-> variant, family |-> fam, port_arg |-> portArg, platform |-> "linux",
     pc |-> "new",
     debug_port |-> DefaultPort,
     playwright |-> FALSE, browser |-> FALSE, context |-> FALSE, page |-> FALSE,
     browser_process |-> None,
     automation_profile_dir |-> None,
     process_manager |-> None, browser_setup |-> FALSE, temp_profile_dir |-> None]

NewHist == [lastOp |-> "none", result |-> "none", failedAt |-> "none", exe |-> "unknown",
            procBase |-> 0, dirBase |-> 0, original_ops |-> {}]

(* the debug_port argument a session's caller passes to launch():         *)
(* EmailService.send_email passes none, GmailMailer.connect_to_gmail       *)
(* passes the port the mailer was built with                               *)
PortArgs == {None} \cup (Ports \ {DefaultPort})

SessionKinds ==
    { NewLauncher(v, f, pa) : v \in Variants, f \in BrowserNames, pa \in PortArgs }

(* every session runs on the same machine                                  *)
OnPlatform(kinds, pf) == [s \in Sessions |-> [kinds[s] EXCEPT !.platform = pf]]

(* a send request as EmailService.send_email makes it: GmailMailer over    *)
(* launchers.BrowserLauncher, launch(profile_name=...) without a port      *)
IsSendRequest(l) == l.variant = "launchers" /\ l.port_arg = None

Absent == [NewLauncher("launchers", "chrome", None) EXCEPT !.pc = "absent"]

(* processes started elsewhere; at most one of them can hold a port        *)
StaleTables ==
    { [o \in Owners |-> IF o = Ext THEN st ELSE <<>>] :
        st \in { q \in SeqsUpTo(StaleProcs, MaxStale) :
                    \A i, j \in 1..Len(q) : i < j => q[i].port < q[j].port } }

(* ========================== GmailMailer: sending ======================= *)
(* send_gmail(): async with GmailMailer(cfg) as mailer: send_email(...).   *)
(* Each helper of send_email() is a loop over a fixed selector list; one   *)
(* loop iteration, with everything it awaits, is one step.                 *)
NumComposeSelectors == 9
NumRecipientSelectors == 15
NumSubjectSelectors == 11
NumBodySelectors == 11
NumSendSelectors == 12
NumTabSelectors == 4
SubjectTabs == 4
BodyTabs == 3
BodyPrefix == 20

(* the EmailInput of the call; a string is a sequence of characters        *)
Recipient == <<"a", "@", "b">>
Subject == <<"h", "i">>
ShortBody == <<"o", "k">>
LongBody == [n \in 1..22 |-> IF n <= BodyPrefix THEN "x" ELSE "y"]
Bodies == {ShortBody, LongBody}

(* body[:20]                                                               *)
Prefix(b) == SubSeq(b, 1, IF Len(b) < BodyPrefix THEN Len(b) ELSE BodyPrefix)

(* what a field can hold after the page was asked to put v into it: nothing *)
(* (the fill silently failed), v, v inside other text, v cut short, or     *)
(* text of another element                                                 *)
FieldValuesAfter(v) ==
    { <<>>, v, <<"<">> \o v \o <<">">>, SubSeq(v, 1, Len(v) - 1), <<"z">> }

(* the same for the rich-text body: also the first 20 characters followed  *)
(* by rewritten text, and the first 20 characters cut by one               *)
TextAfter(b) ==
    FieldValuesAfter(b) \cup { Prefix(b) \o <<"!">>, SubSeq(Prefix(b), 1, Len(Prefix(b)) - 1) }

FillAssumed(intended, value) == TRUE

(* value and intended in value                                             *)
FillVerified(intended, value) == value # <<>> /\ IsSubstring(intended, value)

(* content and body[:20] in content                                        *)
BodyVerified(body, content) == content # <<>> /\ IsSubstring(Prefix(body), content)

NewMailer(pc, body) ==
    [pc |-> pc, is_connected |-> FALSE, page |-> FALSE,
     to |-> Recipient, subject |-> Subject, body |-> body,
     i |-> 1, t |-> 1, k |-> 0, result |-> "none"]

NewDom == [closed |-> FALSE, to |-> <<>>, subject |-> <<>>, body |-> <<>>]

NewTrail ==
    [compose |-> "none", recipient |-> "none", subject |-> "none", body |-> "none",
     send |-> "none",
     tried |-> <<>>, clicked |-> <<>>, skipped |-> {},
     to_read |-> "none", subject_read |-> "none", body_read |-> "none", via |-> "none",
     send_clicks |-> 0, indicators |-> "none",
     entered |-> "none", terminates |-> 0]

(* no send_gmail() call is in progress                                     *)
MailIdle ==
    /\ gm = NewMailer("idle", ShortBody)
    /\ dom = NewDom
    /\ trail = NewTrail

(* no get_available_profiles() call is in progress                         *)
ScanIdle ==
    scan = [pc |-> "idle", impl |-> "ProfileManager", browser |-> "chrome", dirs |-> <<>>,
            result |-> <<>>]

(* the state of a wait for the debug port: i is the loop variable, probes  *)
(* counts the calls of the probe, first_ok is the number of the first probe *)
(* that returned true, listener is what accepts connections on the port,   *)
(* proc the spawned browser, signalled whether Popen.terminate() was called *)
NewWait(pc, variant, listener) ==
    [pc |-> pc, variant |-> variant, i |-> 0, probes |-> 0, first_ok |-> 0,
     listener |-> listener, proc |-> "starting", handle |-> TRUE, signalled |-> FALSE,
     last |-> [impl |-> "none", listener |-> "none", result |-> FALSE]]

(* no launch is waiting for its debug port                                 *)
WaitIdle == wait = NewWait("idle", "launchers", "none")

(* a launcher as far as get_page() sees it: _browser and _context set or   *)
(* None, context.pages as a list of tab ids, _page (0 = None), and the      *)
(* result of the last call (0 = None, -1 = new_page() raised)              *)
NewTabs(pc, attached, pages) ==
    [pc |-> pc, browser |-> attached, context |-> attached, pages |-> pages, page |-> 0,
     next_id |-> Len(pages) + 1, calls |-> 0, ret |-> 0, created |-> 0]

(* no launcher whose pages are followed                                    *)
TabsIdle == ctx = NewTabs("idle", FALSE, <<>>)

(* a GmailMailer during connect_to_gmail(): page and _is_connected, the    *)
(* goto attempts made so far, what the Gmail tab shows, whether login      *)
(* inputs were found, how the wait for the compose button after them       *)
(* ended, and the value returned                                           *)
NewConn(pc, page) ==
    [pc |-> pc, page |-> page, is_connected |-> FALSE, calls |-> 0,
     navs |-> <<>>, view |-> "blank", login_seen |-> FALSE, login_wait |-> "none",
     connected_before |-> FALSE, result |-> "none", failedAt |-> "none"]

(* no connect_to_gmail() call is followed                                  *)
ConnIdle == conn = NewConn("idle", FALSE)

(* a send_email() call of one of the two EmailService classes, entered     *)
(* through the send-email route or called directly: what came in (form,    *)
(* valid, config, has_attachments), the history entry of its email_id      *)
(* (entry_made, status), the mailer and the cleanup calls made on it, the  *)
(* step that failed, the exception on its way out of the inner try         *)
(* (pending) or the value a return statement inside it computed (ret), the *)
(* exception that left send_email (leaving), the EmailResponse returned    *)
(* (resp, and resp_id: email_id is not None), the HTTP status, and what a  *)
(* later get_email_status() returned (queried) for which id (queried_id),  *)
(* with the answer of the status endpoint when it went through it          *)
(* (query_http); page is mailer.page, launches the launch() calls made     *)
NewSvc(pc, variant, entry, form, valid, config, has_attachments) ==
    [pc |-> pc, variant |-> variant, entry |-> entry, form |-> form, valid |-> valid,
     config |-> config, has_attachments |-> has_attachments,
     entry_made |-> FALSE, status |-> "absent", mailer_made |-> FALSE,
     terminates |-> 0, closes |-> 0, failed |-> "none", pending |-> "none", ret |-> "none",
     leaving |-> "none", resp |-> "none", resp_id |-> FALSE, http |-> 0, queried |-> "none",
     queried_id |-> "none", query_http |-> 0, page |-> FALSE, launches |-> 0]

(* no send_email() call is followed                                        *)
SvcIdle == svc = NewSvc("idle", "services", "direct", "ok", TRUE, "BrowserConfig", FALSE)

(* one GmailMailer over several calls: _is_connected and page, the calls   *)
(* made so far (ops), and the last send_email() call: the step it is at,   *)
(* the helpers it ran with their results, its result, and the step at     *)
(* which the last failed call stopped (0 = none)                           *)
NewSes(pc) ==
    [pc |-> pc, is_connected |-> FALSE, page |-> FALSE, ops |-> <<>>, at |-> 0,
     steps |-> <<>>, results |-> <<>>, result |-> "none", failed_at |-> 0]

(* no mailer is followed over several calls                                *)
SesIdle == ses = NewSes("idle")

(* a launch(profile_name) call as far as the config and the Chrome profile  *)
(* setup go: the config object (its profile_name attribute at construction *)
(* and now, "absent" when it has none), the name requested ("" for None),  *)
(* the profiles discovered, and the source profile chosen for copying      *)
NewProf(pc, variant, config, cfg0, requested, discovered) ==
    [pc |-> pc, variant |-> variant, config |-> config, cfg0 |-> cfg0, cfg |-> cfg0,
     requested |-> requested, discovered |-> discovered, source |-> "none"]

(* no profile setup is followed                                            *)
ProfIdle == prof = NewProf("idle", "launchers", "BrowserConfig", "absent", "Default", {})

(* a ProfileService.get_available_profiles(browser_type) call: the browser *)
(* of the config the service was built with, the browser type asked for    *)
(* ("none" for None), the profile directory of each browser, and the       *)
(* BrowserProfile list returned                                            *)
NewListing(pc, config_browser, browser_type, chrome_dir, firefox_dir) ==
    [pc |-> pc, config_browser |-> config_browser, browser_type |-> browser_type,
     chrome_dir |-> chrome_dir, firefox_dir |-> firefox_dir, profiles |-> <<>>]

(* no profile listing is asked for                                         *)
ListingIdle ==
    listing = NewListing("idle", "chrome", "none", [state |-> "missing", items |-> <<>>],
                         [state |-> "missing", items |-> <<>>])

(* the other parts are at rest                                             *)
RestIdle ==
    /\ MailIdle
    /\ ScanIdle
    /\ WaitIdle
    /\ TabsIdle

(* no session, no process, no directory                                    *)
NoSession ==
    /\ launcher = [s \in Sessions |-> Absent]
    /\ procs = [o \in Owners |-> <<>>]

InitRest ==
    /\ mailer = [s \in Sessions |-> [page |-> FALSE]]
    /\ tmpdirs = [s \in Sessions |-> <<>>]
    /\ hist = [s \in Sessions |-> NewHist]
    /\ nLaunches = 0

(* one launcher session of any kind, next to processes started elsewhere   *)
Init ==
    /\ launcher \in { OnPlatform([s \in Sessions |-> IF s = 1 THEN k ELSE Absent], pf) :
                         k \in SessionKinds, pf \in Platforms }
    /\ procs \in StaleTables
    /\ InitRest
    /\ MailIdle
    /\ ScanIdle
    /\ WaitIdle
    /\ TabsIdle
    /\ ConnIdle
    /\ SvcIdle
    /\ SesIdle
    /\ ProfIdle
    /\ ListingIdle

(* two concurrent send requests                                            *)
InitConc ==
    /\ launcher \in { OnPlatform(kinds, pf) :
                         kinds \in [Sessions -> { k \in SessionKinds : IsSendRequest(k) }],
                         pf \in Platforms }
    /\ procs = [o \in Owners |-> <<>>]
    /\ InitRest
    /\ MailIdle
    /\ ScanIdle
    /\ WaitIdle
    /\ TabsIdle
    /\ ConnIdle
    /\ SvcIdle
    /\ SesIdle
    /\ ProfIdle
    /\ ListingIdle

(* one send_gmail() call                                                 *)
InitMail ==
    /\ launcher = [s \in Sessions |-> Absent]
    /\ procs = [o \in Owners |-> <<>>]
    /\ InitRest
    /\ gm \in { NewMailer("enter", b) : b \in Bodies }
    /\ dom = NewDom
    /\ trail = NewTrail
    /\ ScanIdle
    /\ WaitIdle
    /\ TabsIdle
    /\ ConnIdle
    /\ SvcIdle
    /\ SesIdle
    /\ ProfIdle
    /\ ListingIdle

(* ------------------------- process table helpers ----------------------- *)
Pids(ps) == UNION { { <<o, i>> : i \in 1..Len(ps[o]) } : o \in Owners }

Live(ps) == { pid \in Pids(ps) : pid[2] <= Len(ps[pid[1]]) /\ ps[pid[1]][pid[2]].alive }

(* requests.get(http://localhost:port/json/version) answered with 200      *)
is_debug_port_available(ps, port) ==
    \E pid \in Live(ps) : ps[pid[1]][pid[2]].listening /\ ps[pid[1]][pid[2]].port = port

(* a live process of the same browser answers on the port                 *)
HeldBySameBrowser(ps, fam, port) ==
    \E pid \in Live(ps) : LET p == ps[pid[1]][pid[2]] IN
        p.listening /\ p.port = port /\ p.family = fam

(* the processes the kill-by-port scan of launchers.py / lunchers.py kills *)
KillTargets(ps, fam, port) ==
    { pid \in Live(ps) :
        LET p == ps[pid[1]][pid[2]] IN
          /\ p.family = fam
          /\ PortFilterMatch(port, CmdLine(p))
          /\ ~p.denied }

kill_existing_browser_instances(ps, by, fam, port) ==
    LET T == KillTargets(ps, fam, port) IN
    [o \in Owners |->
        [i \in 1..Len(ps[o]) |->
            IF <<o, i>> \in T
            THEN [ps[o][i] EXCEPT !.alive = FALSE, !.listening = FALSE,
                                  !.killer = by, !.killPort = port]
            ELSE ps[o][i]]]

PopenTwice(ps, s, fam, port, dir, outcome) ==
    LET rec == [ProcRec(fam, port, outcome # "exit", FALSE, FALSE, FALSE)
                   EXCEPT !.profile_dir = dir] IN
    [ps EXCEPT ![s] = Append(Append(@, rec), rec)]

(* subprocess.Popen(args), args built for the port and the profile         *)
(* directory dir: outcome "exit" = the process exits at once, "stuck" = it *)
(* runs but never opens the debug port, "ok" = it opens the port unless    *)
(* another live process already holds it                                   *)
Popen(ps, s, fam, port, dir, outcome) ==
    LET busy == is_debug_port_available(ps, port) IN
    [ps EXCEPT ![s] = Append(@,
        [ProcRec(fam, port, outcome # "exit", outcome = "ok" /\ ~busy, FALSE,
                 HeldBySameBrowser(ps, fam, port))
            EXCEPT !.profile_dir = dir])]

OriginalProfileDirArg(s, l) == OriginalDir

(* the directory the argument builders put on the command line:            *)
(* launchers.py self.automation_profile_dir (made by __init__), lunchers.py *)
(* the directory setup_automation_profile() returned                       *)
ProfileDirArg(s, l) ==
    IF l.variant = "launchers" THEN <<s, l.automation_profile_dir>>
    ELSE <<s, l.temp_profile_dir>>

(* what profile setup does in the user's real profile directory: Chrome    *)
(* lists it and copies an allow-list of files out of it; Firefox writes a  *)
(* fresh prefs.js into the automation directory and does not touch it      *)
ProfileSetupOps(fam) ==
    IF fam = "chrome" THEN {"exists", "listdir", "isdir", "copy2_source"} ELSE {}

(* Popen.terminate() without a wait: SIGTERM, which the process may outlive *)
SigTerm(ps, s, h, dies) ==
    IF dies THEN [ps EXCEPT ![s][h].alive = FALSE, ![s][h].listening = FALSE] ELSE ps

(* Popen.terminate(); wait(5); on timeout kill(); wait()                   *)
TerminateAndWait(ps, s, h) ==
    [ps EXCEPT ![s][h].alive = FALSE, ![s][h].listening = FALSE]

(* ----------------------------- constructors ---------------------------- *)
(* BrowserConfig(browser_name=...) is validated against BrowserType        *)
ConfigValid(l) == l.family \in Families

(* launchers.BrowserLauncher.__init__, lines 33-43: the OS check (which    *)
(* evaluates config.os_type), the browser check, and the executable        *)
(* lookup, which knows no path outside Linux and Windows                   *)
ChecksPass(l, found) ==
    /\ os_type(l.platform) \in {"linux", "windows"}
    /\ l.family \in Families
    /\ found

ctor_mkdtemp_first(checks_ok) == TRUE

(* whether __init__ gets to _get_automation_profile_dir() (mkdtemp, line   *)
(* 47): only after every check above has passed                            *)
ctor_mkdtemp(checks_ok) == checks_ok

(* GmailMailer.__init__ -> launchers.BrowserLauncher.__init__;             *)
(* lunchers.BrowserLauncher.__init__ touches nothing outside the object.   *)
Construct(s) ==
    /\ launcher[s].pc = "new"
    /\ \E found \in BOOLEAN :
         LET l0 == launcher[s] IN
         IF ~ConfigValid(l0)
         THEN /\ ~found
              /\ launcher' = [launcher EXCEPT ![s].pc = "ctor_failed"]
              /\ hist' = [hist EXCEPT ![s].lastOp = "construct", ![s].failedAt = "config"]
              /\ UNCHANGED tmpdirs
         ELSE IF l0.variant = "launchers"
         THEN /\ (os_type(l0.platform) = "raise") => ~found
              /\ tmpdirs' = IF ctor_mkdtemp(ChecksPass(l0, found))
                            THEN [tmpdirs EXCEPT ![s] = Append(@, TRUE)]
                            ELSE tmpdirs
              /\ IF ChecksPass(l0, found)
                 THEN /\ launcher' = [launcher EXCEPT ![s].pc = "idle",
                                         ![s].automation_profile_dir = Len(tmpdirs[s]) + 1]
                      /\ hist' = [hist EXCEPT ![s].lastOp = "construct", ![s].exe = "found"]
                 ELSE /\ launcher' = [launcher EXCEPT ![s].pc = "ctor_failed"]
                      /\ hist' = IF os_type(l0.platform) = "raise"
                                 THEN [hist EXCEPT ![s].lastOp = "construct",
                                                   ![s].failedAt = "os"]
                                 ELSE [hist EXCEPT ![s].lastOp = "construct",
                                                   ![s].exe = "missing", ![s].failedAt = "exe"]
         ELSE /\ found
              /\ launcher' = [launcher EXCEPT ![s].pc = "idle"]
              /\ hist' = [hist EXCEPT ![s].lastOp = "construct"]
              /\ UNCHANGED tmpdirs
    /\ UNCHANGED <<mailer, procs, nLaunches>>
    /\ UNCHANGED lframe

CloseHandlesAndProcess(l) ==
    [l EXCEPT !.context = FALSE, !.browser = FALSE, !.playwright = FALSE,
              !.browser_process = None]

(* ------------------------------- close --------------------------------- *)
(* launchers.BrowserLauncher.close: both the normal path and the except    *)
(* path leave _context, _browser and _playwright None                      *)
CloseHandles(l) == [l EXCEPT !.context = FALSE, !.browser = FALSE, !.playwright = FALSE]


(* what launch()'s except clause runs: launchers.py awaits close();        *)
(* lunchers.py calls the coroutine function terminate() without awaiting   *)
(* it, so its body never runs                                              *)
LaunchCleanup(l) == IF l.variant = "launchers" THEN CloseHandles(l) ELSE l

LaunchFailed(h, at) == [h EXCEPT !.lastOp = "launch", !.result = "false", !.failedAt = at]

(* ------------------------ launch(): blocking part ---------------------- *)
(* launchers.py: launch() up to its first await, i.e. the whole of         *)
(* _launch_browser_with_debug_port and its except clause.                  *)
LaunchersSync(s, outcome, dies) ==
    LET l0  == launcher[s]
        dp  == IF l0.port_arg # None THEN l0.port_arg ELSE l0.debug_port
        ps1 == kill_existing_browser_instances(procs, s, l0.family, dp)
        h0  == l0.browser_process
        h0up == h0 # None /\ ps1[s][h0].alive
        ps2 == Popen(ps1, s, l0.family, dp, ProfileDirArg(s, l0), outcome)
        h   == Len(ps2[s])
        ready == is_debug_port_available(ps2, dp)
    IN
    IF outcome = "raise"
    THEN /\ procs' = IF h0up THEN SigTerm(ps1, s, h0, dies) ELSE ps1
         /\ launcher' = [launcher EXCEPT ![s] =
              CloseHandles([l0 EXCEPT !.debug_port = dp,
                               !.browser_process = IF h0up THEN None ELSE h0])]
         /\ hist' = [hist EXCEPT ![s] = LaunchFailed(
                        [@ EXCEPT !.procBase = Len(procs[s]), !.dirBase = Len(tmpdirs[s]),
                                  !.original_ops = @ \cup ProfileSetupOps(l0.family)], "spawn")]
    ELSE IF ready
    THEN /\ procs' = ps2
         /\ launcher' = [launcher EXCEPT ![s].debug_port = dp, ![s].browser_process = h,
                                         ![s].pc = "attach"]
         /\ hist' = [hist EXCEPT ![s].lastOp = "launching", ![s].result = "none",
                        ![s].failedAt = "none",
                        ![s].procBase = Len(procs[s]), ![s].dirBase = Len(tmpdirs[s]),
                        ![s].original_ops = @ \cup ProfileSetupOps(l0.family)]
    ELSE /\ procs' = IF ps2[s][h].alive THEN SigTerm(ps2, s, h, dies) ELSE ps2
         /\ launcher' = [launcher EXCEPT ![s] =
              CloseHandles([l0 EXCEPT !.debug_port = dp,
                               !.browser_process = IF ps2[s][h].alive THEN None ELSE h])]
         /\ hist' = [hist EXCEPT ![s] = LaunchFailed(
                        [@ EXCEPT !.procBase = Len(procs[s]), !.dirBase = Len(tmpdirs[s]),
                                  !.original_ops = @ \cup ProfileSetupOps(l0.family)],
                        IF outcome = "exit" THEN "exit" ELSE "port")]

ExecutableCheckSkipped(found) == FALSE

(* lunchers.py: browser_path = find_browser_executable();                  *)
(* if not browser_path: raise RuntimeError                                 *)
ExecutableMissing(found) == ~found

(* lunchers.py: launch() up to its first await                             *)
LunchersSync(s, found, outcome) ==
    LET l0  == launcher[s]
        dp  == IF l0.port_arg # None THEN l0.port_arg ELSE l0.debug_port
        ps1 == kill_existing_browser_instances(procs, s, l0.family, dp)
        d   == Len(tmpdirs[s]) + 1
        l1  == [l0 EXCEPT !.debug_port = dp, !.process_manager = dp,
                          !.browser_setup = TRUE, !.temp_profile_dir = d]
        ps2 == Popen(ps1, s, l0.family, dp, ProfileDirArg(s, l1), outcome)
        h   == Len(ps2[s])
        h1  == [hist[s] EXCEPT !.procBase = Len(procs[s]), !.dirBase = Len(tmpdirs[s]),
                               !.exe = IF found THEN "found" ELSE "missing",
                               !.original_ops = IF found THEN @ \cup ProfileSetupOps(l0.family)
                                                ELSE @]
    IN
    IF ExecutableMissing(found)
    THEN /\ launcher' = [launcher EXCEPT ![s] = LaunchCleanup([l0 EXCEPT !.debug_port = dp])]
         /\ hist' = [hist EXCEPT ![s] = LaunchFailed(h1, "exe")]
         /\ UNCHANGED <<procs, tmpdirs>>
    ELSE /\ tmpdirs' = [tmpdirs EXCEPT ![s] = Append(@, TRUE)]
         /\ IF outcome = "raise"
            THEN /\ procs' = ps1
                 /\ launcher' = [launcher EXCEPT ![s] = LaunchCleanup(l1)]
                 /\ hist' = [hist EXCEPT ![s] = LaunchFailed(h1, "spawn")]
            ELSE /\ procs' = ps2
                 /\ IF is_debug_port_available(ps2, dp)
                    THEN /\ launcher' = [launcher EXCEPT ![s] =
                                [l1 EXCEPT !.browser_process = h, !.pc = "attach"]]
                         /\ hist' = [hist EXCEPT ![s] =
                                [h1 EXCEPT !.lastOp = "launching", !.result = "none",
                                           !.failedAt = "none"]]
                    ELSE /\ launcher' = [launcher EXCEPT ![s] =
                                LaunchCleanup([l1 EXCEPT !.browser_process = h])]
                         /\ hist' = [hist EXCEPT ![s] = LaunchFailed(h1,
                                IF outcome = "exit" THEN "exit" ELSE "port")]

SpawnOutcomes == {"raise", "exit", "stuck", "ok"}

LaunchSync(s) ==
    /\ launcher[s].pc = "idle"
    /\ nLaunches < MaxLaunches
    /\ nLaunches' = nLaunches + 1
    /\ \E outcome \in SpawnOutcomes :
         IF launcher[s].variant = "launchers"
         THEN /\ \E dies \in BOOLEAN : LaunchersSync(s, outcome, dies)
              /\ UNCHANGED tmpdirs
         ELSE \E found \in BOOLEAN :
                /\ (os_type(launcher[s].platform) = "raise") => ~found
                /\ LunchersSync(s, found, outcome)
    /\ UNCHANGED mailer
    /\ UNCHANGED lframe

(* --------------------- launch(): attach over the port ------------------ *)
(* async_playwright().start() unless already started, then                 *)
(* connect_over_cdp(localhost:debug_port), then browser.contexts           *)
LaunchAttach(s) ==
    /\ launcher[s].pc = "attach"
    /\ \E step \in {"start_raises", "connect_raises", "has_context", "no_context"} :
         LET l0 == launcher[s]
             started == l0.playwright \/ step # "start_raises"
             up == is_debug_port_available(procs, l0.debug_port)
         IN
         IF step = "start_raises" /\ ~l0.playwright
         THEN /\ launcher' = [launcher EXCEPT ![s] = LaunchCleanup([l0 EXCEPT !.pc = "idle"])]
              /\ hist' = [hist EXCEPT ![s] = LaunchFailed(@, "attach")]
         ELSE IF step \in {"start_raises", "connect_raises"} \/ ~up
         THEN /\ launcher' = [launcher EXCEPT ![s] =
                    LaunchCleanup([l0 EXCEPT !.pc = "idle", !.playwright = TRUE])]
              /\ hist' = [hist EXCEPT ![s] = LaunchFailed(@, "attach")]
         ELSE IF step = "has_context"
         THEN /\ launcher' = [launcher EXCEPT ![s] =
                    [l0 EXCEPT !.pc = "idle", !.playwright = TRUE, !.browser = TRUE,
                               !.context = TRUE]]
              /\ hist' = [hist EXCEPT ![s].lastOp = "launch", ![s].result = "true"]
         ELSE /\ launcher' = [launcher EXCEPT ![s] =
                    [l0 EXCEPT !.pc = "context", !.playwright = TRUE, !.browser = TRUE]]
              /\ UNCHANGED hist
    /\ UNCHANGED <<mailer, procs, tmpdirs, nLaunches>>
    /\ UNCHANGED lframe

(* ------------------- launch(): browser.new_context() ------------------- *)
LaunchContext(s) ==
    /\ launcher[s].pc = "context"
    /\ \E ok \in BOOLEAN :
         IF ok
         THEN /\ launcher' = [launcher EXCEPT ![s].pc = "idle", ![s].context = TRUE]
              /\ hist' = [hist EXCEPT ![s].lastOp = "launch", ![s].result = "true"]
         ELSE /\ launcher' = [launcher EXCEPT ![s] =
                    LaunchCleanup([launcher[s] EXCEPT !.pc = "idle"])]
              /\ hist' = [hist EXCEPT ![s] = LaunchFailed(@, "context")]
    /\ UNCHANGED <<mailer, procs, tmpdirs, nLaunches>>
    /\ UNCHANGED lframe

(* ------------------------------ get_page ------------------------------- *)
(* BrowserLauncher.get_page, and for the launchers.py variant the caller's *)
(* mailer.page = await launcher.get_page()                                 *)
get_page(l) == IF ~l.browser \/ ~l.context THEN l ELSE [l EXCEPT !.page = TRUE]

GetPage(s) ==
    /\ launcher[s].pc = "idle"
    /\ launcher' = [launcher EXCEPT ![s] = get_page(@)]
    /\ mailer' = IF launcher[s].variant = "launchers"
                 THEN [mailer EXCEPT ![s].page = launcher[s].browser /\ launcher[s].context]
                 ELSE mailer
    /\ UNCHANGED <<procs, tmpdirs, hist, nLaunches>>
    /\ UNCHANGED lframe

(* ------------------------------- close --------------------------------- *)
(* GmailMailer.close -> launchers.BrowserLauncher.close (lunchers.py has   *)
(* no close)                                                               *)
Close(s) ==
    /\ launcher[s].pc = "idle"
    /\ launcher[s].variant = "launchers"
    /\ launcher' = [launcher EXCEPT ![s] = CloseHandles(@)]
    /\ hist' = [hist EXCEPT ![s].lastOp = "close"]
    /\ UNCHANGED <<mailer, procs, tmpdirs, nLaunches>>
    /\ UNCHANGED lframe

(* ------------------------------ terminate ------------------------------ *)
(* BrowserSetup.cleanup: rmtree of temp_profile_dir if it is set and       *)
(* exists, after which temp_profile_dir is None                            *)
cleanup(dirs, l) ==
    IF l.temp_profile_dir # None /\ dirs[l.temp_profile_dir]
    THEN [dirs EXCEPT ![l.temp_profile_dir] = FALSE]
    ELSE dirs

cleanupField(dirs, l) ==
    IF l.temp_profile_dir # None /\ dirs[l.temp_profile_dir] THEN None ELSE l.temp_profile_dir

(* the handle part of terminate(), common to both variants                 *)
TerminateHandles(l) ==
    [l EXCEPT !.playwright = FALSE, !.browser = FALSE, !.context = FALSE,
              !.browser_process = None]

(* the process table after terminate(): the own handle is terminated and   *)
(* waited for, then the kill-by-port scan runs (lunchers.py: only if a     *)
(* ProcessManager exists, and with the port it was built with)             *)
TerminateProcs(ps, s, l) ==
    LET ps1 == IF l.browser_process # None THEN TerminateAndWait(ps, s, l.browser_process) ELSE ps
    IN IF l.variant = "launchers"
       THEN kill_existing_browser_instances(ps1, s, l.family, l.debug_port)
       ELSE IF l.process_manager # None
            THEN kill_existing_browser_instances(ps1, s, l.family, l.process_manager)
            ELSE ps1

Terminate(s) ==
    /\ launcher[s].pc = "idle"
    /\ LET l0 == launcher[s] IN
       /\ procs' = TerminateProcs(procs, s, l0)
       /\ IF l0.variant = "lunchers" /\ l0.browser_setup
          THEN /\ tmpdirs' = [tmpdirs EXCEPT ![s] = cleanup(@, l0)]
               /\ launcher' = [launcher EXCEPT ![s] =
                      [TerminateHandles(l0) EXCEPT !.temp_profile_dir = cleanupField(tmpdirs[s], l0)]]
          ELSE /\ tmpdirs' = tmpdirs
               /\ launcher' = [launcher EXCEPT ![s] = TerminateHandles(l0)]
    /\ hist' = [hist EXCEPT ![s].lastOp = "terminate"]
    /\ UNCHANGED <<mailer, nLaunches>>
    /\ UNCHANGED lframe

(* ---------------------------- specification ---------------------------- *)
Next ==
    \E s \in Sessions :
        \/ Construct(s)
        \/ LaunchSync(s)
        \/ LaunchAttach(s)
        \/ LaunchContext(s)
        \/ GetPage(s)
        \/ Close(s)
        \/ Terminate(s)

Spec == Init /\ [][Next]_vars

SpecConc == InitConc /\ [][Next]_vars

(* ========================== GmailMailer: steps ========================= *)
(* ---------------------------- __aenter__ ------------------------------- *)
(* connect_to_gmail(): launch + get_page, navigation, login wait; every     *)
(* exception is caught and turned into False; __aenter__ ignores the result *)
ConnectOutcomes == {"launch_false", "no_page", "goto_raises", "login_timeout", "connected"}

connect_to_gmail(g, o) ==
    CASE o \in {"launch_false", "no_page"} -> g
      [] o \in {"goto_raises", "login_timeout"} -> [g EXCEPT !.page = TRUE]
      [] o = "connected" -> [g EXCEPT !.page = TRUE, !.is_connected = TRUE]

Enter ==
    /\ gm.pc = "enter"
    /\ \E o \in ConnectOutcomes :
         /\ gm' = [connect_to_gmail(gm, o) EXCEPT !.pc = "send_email"]
         /\ trail' = [trail EXCEPT !.entered = o]
    /\ UNCHANGED dom
    /\ UNCHANGED mframe

(* ----------------------------- send_email ------------------------------ *)
AfterStep(step) ==
    CASE step = "compose" -> "recipient"
      [] step = "recipient" -> "subject_tab"
      [] step = "subject" -> "body_tab"
      [] step = "body" -> "send"
      [] step = "send" -> "exit"

send_email_unchecked(g, step, ok) ==
    [g EXCEPT !.pc = AfterStep(step), !.i = 1, !.t = 1, !.k = 0,
              !.result = IF step = "send" THEN "true" ELSE @]

(* if not await self._<step>(...): return False, and after the last step   *)
(* return True                                                             *)
send_email(g, step, ok) ==
    IF ~ok THEN [g EXCEPT !.pc = "exit", !.result = "false"]
    ELSE [g EXCEPT !.pc = AfterStep(step), !.i = 1, !.t = 1, !.k = 0,
                   !.result = IF step = "send" THEN "true" ELSE @]

(* helper `step` returned ok; tr is the trail of the iteration that ended it *)
Returned(step, ok, tr) ==
    /\ gm' = send_email(gm, step, ok)
    /\ trail' = [tr EXCEPT ![step] = IF ok THEN "true" ELSE "false"]

(* continue: the next selector of a list of n, or return False after the   *)
(* last one                                                                *)
Continue(step, n, tr) ==
    IF gm.i < n
    THEN /\ gm' = [gm EXCEPT !.i = @ + 1]
         /\ trail' = tr
    ELSE Returned(step, FALSE, tr)

(* an exception left helper `step`: send_email()'s except returns False    *)
Escaped(step) ==
    /\ gm' = [gm EXCEPT !.pc = "exit", !.result = "false"]
    /\ trail' = [trail EXCEPT ![step] = "raised"]

(* if not self._is_connected or not self.page: return False                *)
SendEmailStart ==
    /\ gm.pc = "send_email"
    /\ gm' = IF ~gm.is_connected \/ ~gm.page
             THEN [gm EXCEPT !.pc = "exit", !.result = "false"]
             ELSE [gm EXCEPT !.pc = "compose", !.i = 1]
    /\ UNCHANGED <<dom, trail>>
    /\ UNCHANGED mframe

(* ---------------------------- _click_compose --------------------------- *)
(* one iteration of the selector loop: query_selector, is_visible, click,  *)
(* wait_for_timeout(3000), then the compose indicators (whose result is    *)
(* ignored); any exception in the iteration continues with the next        *)
(* selector; every call on a closed page raises                            *)
ComposeOutcomes == {"absent", "invisible", "raise", "click_raises", "clicked_closed", "clicked"}

ClickCompose ==
    /\ gm.pc = "compose"
    /\ \E o \in ComposeOutcomes :
         /\ dom.closed => o = "raise"
         /\ LET tr == [trail EXCEPT
                         !.tried = Append(@, gm.i),
                         !.clicked = IF o \in {"clicked", "clicked_closed"}
                                     THEN Append(@, gm.i) ELSE @,
                         !.skipped = IF o \in {"clicked", "clicked_closed"}
                                     THEN @ ELSE @ \cup {gm.i}]
            IN /\ dom' = [dom EXCEPT !.closed = @ \/ o = "clicked_closed"]
               /\ IF o = "clicked"
                  THEN Returned("compose", TRUE, tr)
                  ELSE Continue("compose", NumComposeSelectors, tr)
    /\ UNCHANGED mframe

(* ---------------------------- _fill_recipient -------------------------- *)
(* wait_for_timeout(2000) outside any try, then per selector: query, click, *)
(* fill "", fill recipient, input_value readback                           *)
FillRecipient ==
    /\ gm.pc = "recipient"
    /\ IF dom.closed /\ gm.i = 1
       THEN Escaped("recipient") /\ UNCHANGED dom
       ELSE \E o \in {"absent", "raise", "filled"} :
              /\ dom.closed => o = "raise"
              /\ IF o = "filled"
                 THEN \E v \in FieldValuesAfter(gm.to) :
                        /\ dom' = [dom EXCEPT !.to = v]
                        /\ IF FillVerified(gm.to, v)
                           THEN Returned("recipient", TRUE, [trail EXCEPT !.to_read = "ok"])
                           ELSE Continue("recipient", NumRecipientSelectors,
                                         [trail EXCEPT !.to_read = "ok"])
                 ELSE /\ dom' = dom
                      /\ Continue("recipient", NumRecipientSelectors, trail)
    /\ UNCHANGED mframe

(* --------------------- Tab navigation (subject, body) ------------------ *)
(* page.evaluate(f'...document.querySelector("{selector}")...') is a script *)
(* syntax error, and raises, when the selector itself contains a double    *)
(* quote: every subject selector but 'input.aoT' (the 3rd) and every body  *)
(* selector but 'div.Am.aiL.Al.editable.LW-avf.tS-tW' (the 2nd)            *)
Quoted(step, n) == IF step = "subject" THEN n # 3 ELSE n # 2

TabValues(step) == IF step = "subject" THEN FieldValuesAfter(gm.subject) ELSE TextAfter(gm.body)

TabVerified(step, v) ==
    IF step = "subject" THEN FillVerified(gm.subject, v) ELSE BodyVerified(gm.body, v)

(* the Tab path is over: the selector loop starts                          *)
LeaveTabs(step) == [gm EXCEPT !.pc = step, !.i = 1, !.t = 1, !.k = 0]

NextTab(step, tabs) ==
    IF gm.t < tabs THEN [gm EXCEPT !.t = @ + 1, !.k = 0] ELSE LeaveTabs(step)

NextTabSelector(step, tabs) ==
    IF gm.k < NumTabSelectors THEN [gm EXCEPT !.k = @ + 1] ELSE NextTab(step, tabs)

(* k = 0: press Tab and read document.activeElement (an exception ends the *)
(* Tab path); k = 1..4: for the k-th of the first four selectors, if its   *)
(* element is the focused one: Control+a, type, read back (an exception    *)
(* continues with the next selector)                                       *)
TabStep(step, tabs) ==
    IF dom.closed /\ gm.t = 1 /\ gm.k = 0
    THEN Escaped(step) /\ UNCHANGED dom
    ELSE IF gm.k = 0
    THEN \E o \in {"raise", "no_focus", "focus"} :
           /\ dom.closed => o = "raise"
           /\ gm' = CASE o = "raise" -> LeaveTabs(step)
                      [] o = "no_focus" -> NextTab(step, tabs)
                      [] o = "focus" -> [gm EXCEPT !.k = 1]
           /\ UNCHANGED <<dom, trail>>
    ELSE \E o \in {"skip", "typed"} :
           /\ (dom.closed \/ Quoted(step, gm.k)) => o = "skip"
           /\ IF o = "typed"
              THEN \E v \in TabValues(step) :
                     /\ dom' = [dom EXCEPT ![step] = v]
                     /\ IF TabVerified(step, v)
                        THEN Returned(step, TRUE,
                                 [trail EXCEPT ![IF step = "subject" THEN "subject_read"
                                                 ELSE "body_read"] = "ok", !.via = "tab"])
                        ELSE /\ gm' = NextTabSelector(step, tabs)
                             /\ trail' = [trail EXCEPT ![IF step = "subject" THEN "subject_read"
                                                         ELSE "body_read"] = "ok"]
              ELSE /\ gm' = NextTabSelector(step, tabs)
                   /\ UNCHANGED <<dom, trail>>

SubjectTab ==
    /\ gm.pc = "subject_tab"
    /\ TabStep("subject", SubjectTabs)
    /\ UNCHANGED mframe

BodyTab ==
    /\ gm.pc = "body_tab"
    /\ TabStep("body", BodyTabs)
    /\ UNCHANGED mframe

(* ----------------------------- _fill_subject --------------------------- *)
(* per selector: query, click or focus, fill "", fill subject, readback;   *)
(* on a mismatch clear by script, type, readback again                     *)
FillSubject ==
    /\ gm.pc = "subject"
    /\ \E o \in {"absent", "raise", "fill_raises", "filled"} :
         /\ dom.closed => o = "raise"
         /\ IF o = "filled"
            THEN \E v1 \in FieldValuesAfter(gm.subject) :
                   LET tr == [trail EXCEPT !.subject_read = "ok"] IN
                   IF FillVerified(gm.subject, v1)
                   THEN /\ dom' = [dom EXCEPT !.subject = v1]
                        /\ Returned("subject", TRUE, [tr EXCEPT !.via = "fill"])
                   ELSE \E o2 \in {"type_raises", "typed"} :
                          /\ Quoted("subject", gm.i) => o2 = "type_raises"
                          /\ IF o2 = "typed"
                             THEN \E v2 \in FieldValuesAfter(gm.subject) :
                                    /\ dom' = [dom EXCEPT !.subject = v2]
                                    /\ IF FillVerified(gm.subject, v2)
                                       THEN Returned("subject", TRUE, [tr EXCEPT !.via = "type"])
                                       ELSE Continue("subject", NumSubjectSelectors, tr)
                             ELSE /\ dom' = [dom EXCEPT !.subject = v1]
                                  /\ Continue("subject", NumSubjectSelectors, tr)
            ELSE /\ dom' = dom
                 /\ Continue("subject", NumSubjectSelectors, trail)
    /\ UNCHANGED mframe

(* ------------------------------- _fill_body ---------------------------- *)
(* per selector: query, click or focus, one of three fill strategies, then *)
(* the textContent readback; a readback that raises is answered with       *)
(* return True ("Could not verify content, assuming success"); on a        *)
(* mismatch select-all and type, readback again                            *)
FillBody ==
    /\ gm.pc = "body"
    /\ \E o \in {"absent", "raise", "fill_raises", "filled"} :
         /\ dom.closed => o = "raise"
         /\ IF o = "filled"
            THEN \E c1 \in TextAfter(gm.body), r1 \in {"read", "read_raises"} :
                   /\ Quoted("body", gm.i) => r1 = "read_raises"
                   /\ IF r1 = "read_raises"
                      THEN /\ dom' = [dom EXCEPT !.body = c1]
                           /\ Returned("body", TRUE, [trail EXCEPT !.body_read = "raised"])
                      ELSE LET tr == [trail EXCEPT !.body_read = "ok"] IN
                           IF BodyVerified(gm.body, c1)
                           THEN /\ dom' = [dom EXCEPT !.body = c1]
                                /\ Returned("body", TRUE, tr)
                           ELSE \E o2 \in {"keyboard_raises", "typed"} :
                                  IF o2 = "typed"
                                  THEN \E c2 \in TextAfter(gm.body) :
                                         /\ dom' = [dom EXCEPT !.body = c2]
                                         /\ IF BodyVerified(gm.body, c2)
                                            THEN Returned("body", TRUE, tr)
                                            ELSE Continue("body", NumBodySelectors, tr)
                                  ELSE /\ dom' = [dom EXCEPT !.body = c1]
                                       /\ Continue("body", NumBodySelectors, tr)
            ELSE /\ dom' = dom
                 /\ Continue("body", NumBodySelectors, trail)
    /\ UNCHANGED mframe

(* ------------------------------ _click_send ---------------------------- *)
click_send_pessimistic(indicator_seen) == indicator_seen

(* the value _click_send returns once the click and the wait after it are  *)
(* over: True when an indicator appeared, and True ("assuming success")    *)
(* when none did                                                           *)
click_send_result(indicator_seen) == TRUE

(* per selector: query_selector, click, wait_for_timeout(3000), then       *)
(* wait_for_selector(indicator, timeout=2000) for each success indicator,  *)
(* where an exception (a timeout, a closed page) means not seen            *)
SendOutcomes ==
    {"absent", "raise", "click_raises", "clicked_closed", "clicked_seen", "clicked_timeout"}

ClickSend ==
    /\ gm.pc = "send"
    /\ \E o \in SendOutcomes :
         /\ dom.closed => o = "raise"
         /\ LET clicked == o \in {"clicked_closed", "clicked_seen", "clicked_timeout"}
                tr == [trail EXCEPT
                         !.send_clicks = IF clicked THEN @ + 1 ELSE @,
                         !.indicators = CASE o = "clicked_seen" -> "seen"
                                          [] o = "clicked_timeout" -> "timeout"
                                          [] OTHER -> @]
            IN /\ dom' = [dom EXCEPT !.closed = @ \/ o = "clicked_closed"]
               /\ IF o \in {"clicked_seen", "clicked_timeout"}
                  THEN Returned("send", click_send_result(o = "clicked_seen"), tr)
                  ELSE Continue("send", NumSendSelectors, tr)
    /\ UNCHANGED mframe

(* ----------------------------- environment ----------------------------- *)
InCall == gm.pc \in {"send_email", "compose", "recipient", "subject_tab", "subject",
                     "body_tab", "body", "send"}

(* the browser window is closed, or the browser dies, while the call runs   *)
PageCloses ==
    /\ InCall
    /\ ~dom.closed
    /\ dom' = [dom EXCEPT !.closed = TRUE]
    /\ UNCHANGED <<gm, trail>>
    /\ UNCHANGED mframe

(* the task running the body of the async with is cancelled at an await:    *)
(* CancelledError is not an Exception, so send_email() does not catch it    *)
BodyRaises ==
    /\ InCall
    /\ gm' = [gm EXCEPT !.pc = "exit", !.result = "raised"]
    /\ UNCHANGED <<dom, trail>>
    /\ UNCHANGED mframe

(* ------------------------------ __aexit__ ------------------------------ *)
aexit_terminates_on_success(raised) == ~raised

(* __aexit__(exc_type, exc_val, exc_tb): await self.terminate(), whatever   *)
(* the exception                                                            *)
aexit_terminates(raised) == TRUE

(* GmailMailer.terminate: launcher.terminate(), _is_connected = False       *)
Exit ==
    /\ gm.pc = "exit"
    /\ IF aexit_terminates(gm.result = "raised")
       THEN /\ gm' = [gm EXCEPT !.pc = "done", !.is_connected = FALSE]
            /\ trail' = [trail EXCEPT !.terminates = @ + 1]
       ELSE /\ gm' = [gm EXCEPT !.pc = "done"]
            /\ trail' = trail
    /\ UNCHANGED dom
    /\ UNCHANGED mframe

NextMail ==
    \/ Enter
    \/ SendEmailStart
    \/ ClickCompose
    \/ FillRecipient
    \/ SubjectTab
    \/ FillSubject
    \/ BodyTab
    \/ FillBody
    \/ ClickSend
    \/ PageCloses
    \/ BodyRaises
    \/ Exit

SpecMail == InitMail /\ [][NextMail]_vars

(* ============================ ProfileManager =========================== *)
(* entries per scanned directory                                           *)
MaxEntries == 2

(* a name is a sequence of pieces, so that startswith() and lower() work    *)
(* on its parts                                                            *)
LowerPiece(x) ==
    CASE x = "Default" -> "default"
      [] x = "System Profile" -> "system profile"
      [] x = "Profile 1" -> "profile 1"
      [] x = "Crashpad" -> "crashpad"
      [] OTHER -> x

Lower(name) == [i \in DOMAIN name |-> LowerPiece(name[i])]

StartsWith(name, prefix) == Len(name) >= 1 /\ name[1] = prefix

(* what a scanned directory can hold: for Chrome, sub-directories with or  *)
(* without a Preferences file; for Firefox, the Name= lines of profiles.ini *)
ChromeEntries ==
    { [name |-> <<"Default">>, valid |-> TRUE],
      [name |-> <<"Profile 1">>, valid |-> TRUE],
      [name |-> <<"System Profile">>, valid |-> TRUE],
      [name |-> <<"chrome-automation-", "k3">>, valid |-> TRUE],
      [name |-> <<"Crashpad">>, valid |-> FALSE] }

FirefoxEntries ==
    { [name |-> <<"default">>, valid |-> TRUE],
      [name |-> <<"Default">>, valid |-> TRUE],
      [name |-> <<"work">>, valid |-> TRUE],
      [name |-> <<"System Profile">>, valid |-> TRUE],
      [name |-> <<"firefox-automation-", "k3">>, valid |-> TRUE] }

(* one profile directory: missing, unreadable ("error": listdir or open    *)
(* raises, whatever the directory holds), or its entries in the order the  *)
(* OS lists them                                                           *)
DirStates(entries) ==
    { [state |-> "missing", items |-> <<>>], [state |-> "error", items |-> <<>>] }
      \cup { [state |-> "error", items |-> <<x>>] : x \in entries }
      \cup { [state |-> "ok", items |-> q] : q \in SeqsUpTo(entries, MaxEntries) }

(* _get_all_chrome_profile_dirs / _get_all_firefox_profile_dirs: no         *)
(* directory on an unknown OS, one on Windows and Linux, two under WSL     *)
ProfileDirLists(entries) ==
    { <<>> } \cup { <<d>> : d \in DirStates(entries) }
             \cup { <<d, e>> : d \in DirStates(entries), e \in DirStates(entries) }

chrome_excluded ==
    { <<"System Profile">>, <<"Guest Profile">>, <<"BrowserMetrics-spare.pma">>,
      <<"Automation Profile">>, <<"AutomationProfile">> }

firefox_excluded == { <<"System Profile">> }

Range(q) == { q[i] : i \in 1..Len(q) }

KeepProfile(browser, e, profiles) ==
    /\ browser = "chrome" => e.valid
    /\ e.name \notin (IF browser = "chrome" THEN chrome_excluded ELSE firefox_excluded)
    /\ ~StartsWith(e.name, "chrome-automation-")
    /\ ~StartsWith(e.name, "firefox-automation-")
    /\ e.name \notin Range(profiles)

(* the inner loop over the items of one directory                          *)
RECURSIVE AddItems(_, _, _)
AddItems(browser, profiles, items) ==
    IF items = <<>> THEN profiles
    ELSE AddItems(browser,
                  IF KeepProfile(browser, Head(items), profiles)
                  THEN Append(profiles, Head(items).name) ELSE profiles,
                  Tail(items))

dir_items_despite_error(d) == d.items

(* what the try block of one directory gets to see: os.listdir() and        *)
(* open() raise before the first entry is looked at                        *)
dir_items(d) == IF d.state = "ok" THEN d.items ELSE <<>>

(* the outer loop: a missing directory is skipped, an exception while       *)
(* reading one is logged and the loop goes on with the next                *)
RECURSIVE ScanDirs(_, _, _)
ScanDirs(browser, profiles, dirs) ==
    IF dirs = <<>> THEN profiles
    ELSE ScanDirs(browser, AddItems(browser, profiles, dir_items(Head(dirs))), Tail(dirs))

(* list.remove(x): the first occurrence                                    *)
RECURSIVE Remove(_, _)
Remove(q, x) ==
    IF q = <<>> THEN <<>>
    ELSE IF Head(q) = x THEN Tail(q) ELSE <<Head(q)>> \o Remove(Tail(q), x)

get_chrome_profiles(dirs) ==
    LET profiles == ScanDirs("chrome", <<>>, dirs) IN
    IF <<"Default">> \notin Range(profiles)
    THEN <<<<"Default">>>> \o profiles
    ELSE <<<<"Default">>>> \o Remove(profiles, <<"Default">>)

get_firefox_profiles(dirs) ==
    LET profiles == ScanDirs("firefox", <<>>, dirs) IN
    IF <<"default">> \notin { Lower(profiles[i]) : i \in 1..Len(profiles) }
    THEN <<<<"default">>>> \o profiles
    ELSE LET first == CHOOSE i \in 1..Len(profiles) :
                         /\ Lower(profiles[i]) = <<"default">>
                         /\ \A j \in 1..(i - 1) : Lower(profiles[j]) # <<"default">>
             default_profile == profiles[first]
         IN <<default_profile>> \o Remove(profiles, default_profile)

get_available_profiles(browser, dirs) ==
    IF browser = "chrome" THEN get_chrome_profiles(dirs)
    ELSE IF browser = "firefox" THEN get_firefox_profiles(dirs)
    ELSE <<<<"Default">>>>

(* "automation" in item.lower()                                            *)
ContainsAutomation(name) ==
    \E i \in 1..Len(name) : LowerPiece(name[i]) \in {"chrome-automation-", "firefox-automation-"}

KeepOriginal(e) ==
    /\ e.valid
    /\ e.name \notin { <<"System Profile">>, <<"Guest Profile">> }
    /\ ~ContainsAutomation(e.name)

(* launchers.BrowserLauncher._get_chrome_profiles_from_original: one       *)
(* directory, one try block around the whole scan                          *)
get_chrome_profiles_from_original(d) ==
    IF d.state = "error" THEN <<<<"Default">>>>
    ELSE LET kept == SelectSeq(d.items, KeepOriginal)
             profiles == [i \in 1..Len(kept) |-> kept[i].name]
         IN IF <<"Default">> \notin Range(profiles)
            THEN <<<<"Default">>>> \o profiles ELSE profiles

(* a directory listing names each entry once                               *)
IsListing(d) == \A i, j \in 1..Len(d.items) : i # j => d.items[i] # d.items[j]

(* one get_available_profiles() call on some state of the disk             *)
InitProfiles ==
    /\ launcher = [s \in Sessions |-> Absent]
    /\ procs = [o \in Owners |-> <<>>]
    /\ InitRest
    /\ MailIdle
    /\ WaitIdle
    /\ TabsIdle
    /\ ConnIdle
    /\ SvcIdle
    /\ SesIdle
    /\ ProfIdle
    /\ ListingIdle
    /\ scan \in { [pc |-> "call", impl |-> "ProfileManager", browser |-> "chrome",
                     dirs |-> d, result |-> <<>>] : d \in ProfileDirLists(ChromeEntries) }
               \cup { [pc |-> "call", impl |-> "ProfileManager", browser |-> "firefox",
                        dirs |-> d, result |-> <<>>] : d \in ProfileDirLists(FirefoxEntries) }
               \cup { [pc |-> "call", impl |-> "launchers", browser |-> "chrome",
                        dirs |-> <<d>>, result |-> <<>>] :
                        d \in { x \in DirStates(ChromeEntries) : IsListing(x) } }

GetAvailableProfiles ==
    /\ scan.pc = "call"
    /\ scan.impl = "ProfileManager"
    /\ scan' = [scan EXCEPT !.pc = "returned",
                            !.result = get_available_profiles(scan.browser, scan.dirs)]
    /\ UNCHANGED pframe

(* BrowserLauncher.get_available_profiles() of launchers.py for Chrome     *)
GetProfilesFromOriginal ==
    /\ scan.pc = "call"
    /\ scan.impl = "launchers"
    /\ scan' = [scan EXCEPT !.pc = "returned",
                            !.result = get_chrome_profiles_from_original(scan.dirs[1])]
    /\ UNCHANGED pframe

NextProfiles ==
    \/ GetAvailableProfiles
    \/ GetProfilesFromOriginal

SpecProfiles == InitProfiles /\ [][NextProfiles]_vars

(* ============================ ProfileService =========================== *)
(* list(BrowserType)                                                       *)
BrowserTypes == <<"chrome", "firefox">>

(* the profile directory a ProfileManager for the browser scans            *)
profile_dirs_of(browser, chrome_dir, firefox_dir) ==
    IF browser = "chrome" THEN <<chrome_dir>> ELSE <<firefox_dir>>

(* get_profile_service(): the service and its one ProfileManager are built  *)
(* with a Chrome config; the request names a browser type or none          *)
InitListing ==
    /\ NoSession
    /\ InitRest
    /\ RestIdle
    /\ ConnIdle
    /\ SvcIdle
    /\ SesIdle
    /\ ProfIdle
    /\ listing \in { NewListing("call", "chrome", bt, c, f) :
                       bt \in {"none", "chrome", "firefox"},
                       c \in { x \in DirStates(ChromeEntries) : IsListing(x) },
                       f \in { x \in DirStates(FirefoxEntries) : IsListing(x) } }

(* self.profile_manager.get_available_profiles(): the manager of the       *)
(* constructor's config, whatever bt the loop is at                        *)
names_for(config_browser, bt, chrome_dir, firefox_dir) ==
    get_available_profiles(config_browser,
                           profile_dirs_of(config_browser, chrome_dir, firefox_dir))

(* the loop over browser_types, one BrowserProfile per name                *)
RECURSIVE list_profiles(_, _, _, _)
list_profiles(config_browser, browser_types, chrome_dir, firefox_dir) ==
    IF browser_types = <<>> THEN <<>>
    ELSE LET bt == Head(browser_types)
             names == names_for(config_browser, bt, chrome_dir, firefox_dir)
         IN [i \in 1..Len(names) |->
                [name |-> names[i], browser_type |-> bt,
                 is_default |-> Lower(names[i]) \in {<<"default">>, <<"default profile">>}]]
            \o list_profiles(config_browser, Tail(browser_types), chrome_dir, firefox_dir)

(* "if not profiles": one Default profile per browser type                 *)
default_profiles(browser_types) ==
    [i \in 1..Len(browser_types) |->
        [name |-> <<"Default">>, browser_type |-> browser_types[i], is_default |-> TRUE]]

ListAvailableProfiles ==
    /\ listing.pc = "call"
    /\ LET browser_types == IF listing.browser_type # "none"
                            THEN <<listing.browser_type>> ELSE BrowserTypes
           profiles == list_profiles(listing.config_browser, browser_types,
                                     listing.chrome_dir, listing.firefox_dir)
       IN listing' = [listing EXCEPT
              !.pc = "returned",
              !.profiles = IF profiles = <<>> THEN default_profiles(browser_types)
                           ELSE profiles]
    /\ UNCHANGED gframe

NextListing == ListAvailableProfiles

SpecListing == InitListing /\ [][NextListing]_vars

(* ====================== waiting for the debug port ===================== *)
max_retries == 20

(* calls of the socket probe that are followed                             *)
MaxSocketProbes == 2

(* what accepts connections on localhost:debug_port: nothing (connection   *)
(* refused), a browser's DevTools endpoint, some other server, or a port    *)
(* that swallows the connect until the timeout                             *)
Listeners == {"none", "debug", "other", "filtered"}

(* a TCP connect to the port succeeds                                      *)
Accepts(listener) == listener \in {"debug", "other"}

(* BaseBrowserProcessManager.is_debug_port_available: connect_ex(...) != 0, *)
(* and True when the socket call raises                                    *)
socket_probe(listener) == ~Accepts(listener)

http_probe_any_answer(listener) == Accepts(listener)

(* launchers._is_debug_port_available and lunchers                          *)
(* ProcessManager.is_debug_port_available: GET /json/version answered with *)
(* status 200; a RequestException (refused, timeout, no HTTP) gives False  *)
http_probe(listener) == listener = "debug"

WaitVariants == {"launchers", "lunchers", "process_managers"}

(* right after subprocess.Popen returned                                   *)
InitWait ==
    /\ NoSession
    /\ InitRest
    /\ MailIdle
    /\ ScanIdle
    /\ TabsIdle
    /\ ConnIdle
    /\ SvcIdle
    /\ SesIdle
    /\ ProfIdle
    /\ ListingIdle
    /\ wait \in { NewWait("probing", v, l) : v \in WaitVariants, l \in Listeners }

(* what the failure path does to the spawned process: launchers.py calls   *)
(* Popen.terminate() if poll() is None; the except clause of lunchers.py    *)
(* calls the coroutine function terminate() without awaiting it, so nothing *)
(* runs                                                                    *)
wait_signals(variant, polled_alive) == variant = "launchers" /\ polled_alive

(* if self._is_debug_port_available(): return True  (lunchers.py: break)    *)
wait_stops(ok) == ok

(* one iteration of `for i in range(max_retries)`: probe, and either leave  *)
(* the loop or sleep 0.5 s; after the last iteration RuntimeError is raised *)
(* and handled, and launch() returns False                                 *)
WaitProbe ==
    /\ wait.pc = "probing"
    /\ wait.variant \in {"launchers", "lunchers"}
    /\ wait.i < max_retries
    /\ LET ok == http_probe(wait.listener)
           w1 == [wait EXCEPT !.probes = @ + 1,
                              !.first_ok = IF ok /\ @ = 0 THEN wait.probes + 1 ELSE @,
                              !.last = [impl |-> wait.variant, listener |-> wait.listener,
                                        result |-> ok]]
           alive == wait.proc # "exited"
       IN
       IF wait_stops(ok)
       THEN wait' = [w1 EXCEPT !.pc = "ready"]
       ELSE IF wait.i + 1 < max_retries
       THEN wait' = [w1 EXCEPT !.i = @ + 1]
       ELSE wait' = [w1 EXCEPT !.i = @ + 1, !.pc = "failed",
                               !.signalled = wait_signals(wait.variant, alive),
                               !.handle = ~wait_signals(wait.variant, alive)]
    /\ UNCHANGED wframe

(* process_managers.py: one call of is_debug_port_available(port)          *)
SocketProbe ==
    /\ wait.pc = "probing"
    /\ wait.variant = "process_managers"
    /\ wait.probes < MaxSocketProbes
    /\ wait' = [wait EXCEPT !.probes = @ + 1,
                            !.last = [impl |-> wait.variant, listener |-> wait.listener,
                                      result |-> socket_probe(wait.listener)]]
    /\ UNCHANGED wframe

(* the spawned browser opens its debug port, unless something else holds it *)
BrowserOpensPort ==
    /\ wait.pc = "probing"
    /\ wait.proc = "starting"
    /\ wait.listener = "none"
    /\ wait' = [wait EXCEPT !.proc = "up", !.listener = "debug"]
    /\ UNCHANGED wframe

(* the spawned browser exits by itself                                     *)
BrowserExits ==
    /\ wait.pc = "probing"
    /\ wait.proc \in {"starting", "up"}
    /\ wait' = [wait EXCEPT !.proc = "exited",
                            !.listener = IF wait.proc = "up" THEN "none" ELSE @]
    /\ UNCHANGED wframe

NextWait ==
    \/ WaitProbe
    \/ SocketProbe
    \/ BrowserOpensPort
    \/ BrowserExits

SpecWait == InitWait /\ [][NextWait]_vars

(* ============================== get_page =============================== *)
(* tab ids that exist over a run, and get_page() calls that are followed   *)
MaxTabs == 3
MaxGetPage == 3

InitPage ==
    /\ NoSession
    /\ InitRest
    /\ MailIdle
    /\ ScanIdle
    /\ WaitIdle
    /\ ConnIdle
    /\ SvcIdle
    /\ SesIdle
    /\ ProfIdle
    /\ ListingIdle
    /\ ctx \in { NewTabs("live", a, [k \in 1..n |-> k]) : a \in BOOLEAN, n \in 0..1 }

always_new_page(pages) == TRUE

(* if pages: self._page = pages[0]  else: self._page = await new_page()    *)
needs_new_page(pages) == pages = <<>>

(* BrowserLauncher.get_page (the same text in launchers.py and lunchers.py) *)
GetPageCall ==
    /\ ctx.pc = "live"
    /\ ctx.calls < MaxGetPage
    /\ \E raises \in BOOLEAN :
         LET t == [ctx EXCEPT !.calls = @ + 1] IN
         IF ~ctx.browser \/ ~ctx.context
         THEN /\ ~raises
              /\ ctx' = [t EXCEPT !.ret = 0]
         ELSE IF ctx.page # 0
         THEN /\ ~raises
              /\ ctx' = [t EXCEPT !.ret = ctx.page]
         ELSE IF ~needs_new_page(ctx.pages)
         THEN /\ ~raises
              /\ ctx' = [t EXCEPT !.page = ctx.pages[1], !.ret = ctx.pages[1]]
         ELSE IF raises \/ ctx.next_id > MaxTabs
         THEN ctx' = [t EXCEPT !.ret = -1]
         ELSE ctx' = [t EXCEPT !.pages = Append(@, ctx.next_id), !.next_id = @ + 1,
                                !.created = @ + 1,
                                !.page = ctx.next_id, !.ret = ctx.next_id]
    /\ UNCHANGED tframe

(* launch() attached: _browser and _context are set                        *)
TabsAttach ==
    /\ ctx.pc = "live"
    /\ ~ctx.browser
    /\ ctx' = [ctx EXCEPT !.browser = TRUE, !.context = TRUE]
    /\ UNCHANGED tframe

(* close() or terminate(): _browser and _context are None, _page is kept   *)
TabsDetach ==
    /\ ctx.pc = "live"
    /\ ctx.browser
    /\ ctx' = [ctx EXCEPT !.browser = FALSE, !.context = FALSE]
    /\ UNCHANGED tframe

(* the user or the browser opens a tab                                     *)
TabOpens ==
    /\ ctx.pc = "live"
    /\ ctx.next_id <= MaxTabs
    /\ ctx' = [ctx EXCEPT !.pages = Append(@, ctx.next_id), !.next_id = @ + 1]
    /\ UNCHANGED tframe

(* a tab is closed                                                         *)
TabCloses ==
    /\ ctx.pc = "live"
    /\ \E k \in 1..Len(ctx.pages) :
         ctx' = [ctx EXCEPT !.pages = SubSeq(@, 1, k - 1) \o SubSeq(@, k + 1, Len(@))]
    /\ UNCHANGED tframe

NextPage ==
    \/ GetPageCall
    \/ TabsAttach
    \/ TabsDetach
    \/ TabOpens
    \/ TabCloses

SpecPage == InitPage /\ [][NextPage]_vars

(* ========================== connect_to_gmail =========================== *)
(* connect_to_gmail() calls on one mailer that are followed                 *)
MaxConnects == 2

(* the wait_until argument of the three goto calls, in the order of the     *)
(* nested try blocks                                                       *)
nav_strategies == <<"networkidle", "domcontentloaded", "none">>

(* what the Gmail tab shows once a navigation got through: the login form,  *)
(* the inbox with its compose button, or a page with neither               *)
Views == {"login", "inbox", "other"}

(* EmailService sets mailer.page before calling; send_gmail does not        *)
InitConnect ==
    /\ NoSession
    /\ InitRest
    /\ RestIdle
    /\ SvcIdle
    /\ SesIdle
    /\ ProfIdle
    /\ ListingIdle
    /\ conn \in { NewConn("start", pg) : pg \in BOOLEAN }

ConnReturn(c, ok, at) ==
    [c EXCEPT !.pc = "returned", !.result = IF ok THEN "true" ELSE "false", !.failedAt = at]

(* connect_to_gmail entered: if not self.page, launch() and get_page();     *)
(* anything they raise is caught by the outer except                       *)
ConnectStart ==
    /\ conn.pc \in {"start", "returned"}
    /\ conn.calls < MaxConnects
    /\ LET c == [conn EXCEPT !.calls = @ + 1, !.navs = <<>>, !.login_seen = FALSE,
                             !.login_wait = "none", !.result = "none", !.failedAt = "none",
                             !.connected_before = conn.is_connected]
       IN
       IF conn.page
       THEN conn' = [c EXCEPT !.pc = "goto"]
       ELSE \E o \in {"launch_false", "no_page", "raises", "ok"} :
              conn' = IF o = "ok" THEN [c EXCEPT !.pc = "goto", !.page = TRUE]
                      ELSE ConnReturn(c, FALSE, "launch")
    /\ UNCHANGED cframe

skip_to_last_strategy(k) == Len(nav_strategies)

(* the goto made after k attempts have failed                              *)
next_strategy(k) == k + 1

(* one page.goto("https://gmail.com", wait_until=...): a goto that raises   *)
(* is followed by the next strategy; the third one raising reaches the     *)
(* outer except and connect_to_gmail returns False                         *)
Goto ==
    /\ conn.pc = "goto"
    /\ \E ok \in BOOLEAN, v \in Views :
         LET k == next_strategy(Len(conn.navs))
             c == [conn EXCEPT !.navs = Append(@, [strategy |-> nav_strategies[k], ok |-> ok])]
         IN
         IF ok
         THEN conn' = [c EXCEPT !.pc = "settle", !.view = v]
         ELSE IF k < Len(nav_strategies)
         THEN conn' = c
         ELSE conn' = ConnReturn(c, FALSE, "navigation")
    /\ UNCHANGED cframe

(* wait_for_timeout(3000), then wait_for_selector(compose or email input,   *)
(* 10 s), then query_selector_all(login inputs)                            *)
DetectInterface ==
    /\ conn.pc = "settle"
    /\ \E raises \in BOOLEAN :
         IF raises \/ conn.view = "other"
         THEN conn' = ConnReturn(conn, FALSE, "interface")
         ELSE IF conn.view = "login"
         THEN conn' = [conn EXCEPT !.pc = "login_wait", !.login_seen = TRUE]
         ELSE conn' = ConnReturn([conn EXCEPT !.is_connected = TRUE], TRUE, "none")
    /\ UNCHANGED cframe

login_wait_ignored(appeared) == TRUE

(* whether connect_to_gmail goes on to `self._is_connected = True` after    *)
(* wait_for_selector(compose, timeout=120000): a timeout raises into the    *)
(* inner except                                                            *)
login_wait_passed(appeared) == appeared

(* the login wait ends: the compose button is there, or the timeout (or a   *)
(* closed page) raises                                                     *)
LoginWait ==
    /\ conn.pc = "login_wait"
    /\ \E raises \in BOOLEAN :
         LET appeared == conn.view = "inbox" /\ ~raises
             c == [conn EXCEPT !.login_wait = IF appeared THEN "appeared" ELSE "timeout"]
         IN
         IF login_wait_passed(appeared)
         THEN conn' = ConnReturn([c EXCEPT !.is_connected = TRUE], TRUE, "none")
         ELSE conn' = ConnReturn(c, FALSE, "login")
    /\ UNCHANGED cframe

(* the user completes the login in the browser window                      *)
UserLogsIn ==
    /\ conn.pc \in {"settle", "login_wait"}
    /\ conn.view = "login"
    /\ conn' = [conn EXCEPT !.view = "inbox"]
    /\ UNCHANGED cframe

NextConnect ==
    \/ ConnectStart
    \/ Goto
    \/ DetectInterface
    \/ LoginWait
    \/ UserLogsIn

SpecConnect == InitConnect /\ [][NextConnect]_vars

(* ============================ EmailService ============================= *)
(* the exceptions send_email() of services/email_service.py names in its   *)
(* first except clause                                                     *)
TypedExceptions ==
    { "EmailValidationException", "BrowserLaunchException", "BrowserPageException",
      "GmailConnectionException", "EmailSendException" }

(* the status_code each exception class sets in its constructor            *)
status_code(exc) ==
    CASE exc = "EmailValidationException" -> 400
      [] exc = "GmailConnectionException" -> 502
      [] exc \in {"BrowserLaunchException", "BrowserPageException", "EmailSendException"} -> 503
      [] OTHER -> 500

(* what the send-email form can hold: headless without a profile, a        *)
(* browser name outside BrowserType, field values EmailRequest rejects     *)
(* (pydantic ValidationError), or values it accepts                        *)
Forms == {"ok", "headless_no_profile", "bad_browser", "bad_request"}

(* browser_config as send_email() receives it: None, a BrowserConfig (the  *)
(* model has the fields browser_name and headless only), or an object that *)
(* also carries the profile_name attribute send_email() reads              *)
Configs == {"none", "BrowserConfig", "profiled"}

has_profile_name(config) == config = "profiled"

(* a request through the route of routes/email_routes.py, which builds the *)
(* EmailRequest and the BrowserConfig itself, or a direct call of          *)
(* send_email() of either class; valid is what validate_email_format()     *)
(* says of the request (false for a subject of blanks, which EmailRequest  *)
(* accepts), has_attachments whether the request object has the            *)
(* attachments attribute the api variant reads                             *)
InitService ==
    /\ NoSession
    /\ InitRest
    /\ RestIdle
    /\ ConnIdle
    /\ SesIdle
    /\ ProfIdle
    /\ ListingIdle
    /\ svc \in { NewSvc("route", "services", "route", f, v, "BrowserConfig", FALSE) :
                   f \in Forms, v \in BOOLEAN }
               \cup { NewSvc("call", "services", "direct", "ok", v, c, FALSE) :
                   v \in BOOLEAN, c \in Configs }
               \cup { NewSvc("call", "api", "direct", "ok", TRUE, c, a) :
                   c \in {"none", "BrowserConfig"}, a \in BOOLEAN }

(* the steps of send_email() that lie inside the inner try, whose finally  *)
(* cleans the mailer up                                                    *)
cleanup_only_after_launch(step) ==
    step \in {"page", "page_raise", "connect", "send", "send_raise"}

cleanup_runs(step) ==
    step \in {"attribute", "launch", "page", "page_raise", "connect", "send", "send_raise"}

(* the except clauses of send_email(): each of them first writes the       *)
(* status of the history entry, which is a KeyError when the entry was     *)
(* never made; then the typed variant re-raises a typed exception and      *)
(* wraps any other in EmailSendException, and the api variant returns an   *)
(* error response                                                          *)
leaving_exception_reraised(variant, exc, entry_made) == exc

leaving_exception(variant, exc, entry_made) ==
    IF ~entry_made THEN "KeyError"
    ELSE IF variant = "api" THEN "none"
    ELSE IF exc \in TypedExceptions THEN exc
    ELSE "EmailSendException"

Handled(s, exc) ==
    LET out == leaving_exception(s.variant, exc, s.entry_made) IN
    [s EXCEPT !.pc = "returned", !.pending = "none", !.leaving = out,
              !.status = IF s.entry_made THEN "error" ELSE s.status,
              !.resp = IF out = "none" THEN "error" ELSE "none",
              !.resp_id = (out = "none")]

(* an exception raised by a step: through the finally when the step is     *)
(* inside the inner try, straight to the except clauses otherwise          *)
Unwind(s, step, exc) ==
    IF cleanup_runs(step)
    THEN [s EXCEPT !.pc = "finally", !.failed = step, !.pending = exc]
    ELSE Handled([s EXCEPT !.failed = step], exc)

(* the route up to the call of send_email()                                *)
RouteReceive ==
    /\ svc.pc = "route"
    /\ svc' = IF svc.form \in {"headless_no_profile", "bad_browser"}
              THEN [svc EXCEPT !.pc = "responded", !.failed = "form", !.http = 400]
              ELSE IF svc.form = "bad_request"
              THEN [svc EXCEPT !.pc = "responded", !.failed = "request", !.http = 500]
              ELSE [svc EXCEPT !.pc = "call"]
    /\ UNCHANGED sframe

(* the route after send_email(): the response, or the except clauses       *)
RouteRespond ==
    /\ svc.pc = "returned"
    /\ svc.entry = "route"
    /\ svc' = [svc EXCEPT !.pc = "responded",
                          !.http = IF svc.leaving = "none" THEN 200
                                   ELSE IF svc.leaving \in TypedExceptions
                                   THEN status_code(svc.leaving)
                                   ELSE 500]
    /\ UNCHANGED sframe

(* services/email_service.py: validate_email_format()                      *)
SvcValidate ==
    /\ svc.pc = "call"
    /\ svc.variant = "services"
    /\ svc' = IF svc.valid
              THEN [svc EXCEPT !.pc = "prepare"]
              ELSE Unwind(svc, "validation", "EmailValidationException")
    /\ UNCHANGED sframe

(* the default config, the EmailInput, the history entry and the mailer,   *)
(* whose constructor builds a BrowserLauncher                              *)
SvcPrepare ==
    /\ svc.pc = "prepare"
    /\ \E ctor_ok \in BOOLEAN :
         LET tracked == [svc EXCEPT !.entry_made = TRUE, !.status = "sending"] IN
         svc' = IF ctor_ok
                THEN [tracked EXCEPT !.pc = "profile", !.mailer_made = TRUE]
                ELSE Unwind(tracked, "ctor", "Exception")
    /\ UNCHANGED sframe

(* browser_config.profile_name, the first statement of the inner try       *)
SvcProfileName ==
    /\ svc.pc = "profile"
    /\ svc' = IF has_profile_name(svc.config)
              THEN [svc EXCEPT !.pc = "launch"]
              ELSE Unwind(svc, "attribute", "AttributeError")
    /\ UNCHANGED sframe

SvcLaunch ==
    /\ svc.pc = "launch"
    /\ \E connected \in BOOLEAN :
         LET called == [svc EXCEPT !.launches = @ + 1] IN
         svc' = IF connected
                THEN [called EXCEPT !.pc = "page"]
                ELSE Unwind([called EXCEPT !.status = "failed"], "launch",
                            "BrowserLaunchException")
    /\ UNCHANGED sframe

(* get_page() returns a page or None, or new_page() raises inside it       *)
SvcGetPage ==
    /\ svc.pc = "page"
    /\ \E r \in {"page", "none", "raise"} :
         svc' = CASE r = "page" -> [svc EXCEPT !.pc = "connect", !.page = TRUE]
                  [] r = "none" -> Unwind([svc EXCEPT !.status = "failed"], "page",
                                          "BrowserPageException")
                  [] OTHER -> Unwind(svc, "page_raise", "Exception")
    /\ UNCHANGED sframe

(* connect_to_gmail() launches the browser itself when the mailer has no   *)
(* page yet                                                                *)
connect_always_launches(page) == TRUE

connect_launches(page) == ~page

Connecting(s) ==
    IF connect_launches(s.page) THEN [s EXCEPT !.launches = @ + 1, !.page = TRUE] ELSE s

SvcConnect ==
    /\ svc.pc = "connect"
    /\ svc.variant = "services"
    /\ \E gmail_connected \in BOOLEAN :
         svc' = IF gmail_connected
                THEN [Connecting(svc) EXCEPT !.pc = "send"]
                ELSE Unwind([Connecting(svc) EXCEPT !.status = "failed"], "connect",
                            "GmailConnectionException")
    /\ UNCHANGED sframe

SvcSend ==
    /\ svc.pc = "send"
    /\ svc.variant = "services"
    /\ \E success \in BOOLEAN :
         svc' = IF success
                THEN [svc EXCEPT !.pc = "finally", !.status = "sent", !.ret = "sent"]
                ELSE Unwind([svc EXCEPT !.status = "failed"], "send", "EmailSendException")
    /\ UNCHANGED sframe

(* finally: await mailer.terminate(); then the return value goes out, or   *)
(* the exception reaches the except clauses                                *)
SvcFinally ==
    /\ svc.pc = "finally"
    /\ svc.variant = "services"
    /\ LET done == [svc EXCEPT !.terminates = @ + 1] IN
       svc' = IF svc.pending = "none"
              THEN [done EXCEPT !.pc = "returned", !.resp = svc.ret, !.resp_id = TRUE]
              ELSE Handled(done, svc.pending)
    /\ UNCHANGED sframe

(* api/services/email_service.py: the default config, the EmailInput built *)
(* with email_request.attachments, the history entry and the mailer        *)
ApiPrepare ==
    /\ svc.pc = "call"
    /\ svc.variant = "api"
    /\ \E ctor_ok \in BOOLEAN :
         LET tracked == [svc EXCEPT !.entry_made = TRUE, !.status = "sending"] IN
         svc' = IF ~svc.has_attachments
                THEN Handled([svc EXCEPT !.failed = "attribute"], "AttributeError")
                ELSE IF ctor_ok
                THEN [tracked EXCEPT !.pc = "connect", !.mailer_made = TRUE]
                ELSE Handled([tracked EXCEPT !.failed = "ctor"], "Exception")
    /\ UNCHANGED sframe

ApiConnect ==
    /\ svc.pc = "connect"
    /\ svc.variant = "api"
    /\ \E connected \in BOOLEAN :
         svc' = IF connected
                THEN [Connecting(svc) EXCEPT !.pc = "send"]
                ELSE [Connecting(svc) EXCEPT !.pc = "finally", !.status = "failed",
                                             !.failed = "connect", !.ret = "connect_failed"]
    /\ UNCHANGED sframe

(* the send returns true or false, or raises as the mailer the tests put   *)
(* in its place does                                                       *)
ApiSend ==
    /\ svc.pc = "send"
    /\ svc.variant = "api"
    /\ \E r \in {"true", "false", "raise"} :
         svc' = CASE r = "true" -> [svc EXCEPT !.pc = "finally", !.status = "sent",
                                               !.ret = "sent"]
                  [] r = "false" -> [svc EXCEPT !.pc = "finally", !.status = "failed",
                                                !.failed = "send", !.ret = "send_failed"]
                  [] OTHER -> [svc EXCEPT !.pc = "finally", !.failed = "send_raise",
                                          !.pending = "Exception"]
    /\ UNCHANGED sframe

(* finally: await mailer.close(); every EmailResponse of this variant is   *)
(* built with email_id=email_id                                            *)
ApiFinally ==
    /\ svc.pc = "finally"
    /\ svc.variant = "api"
    /\ LET done == [svc EXCEPT !.closes = @ + 1] IN
       svc' = IF svc.pending = "none"
              THEN [done EXCEPT !.pc = "returned", !.resp = svc.ret, !.resp_id = TRUE]
              ELSE Handled(done, svc.pending)
    /\ UNCHANGED sframe

(* the ids a status query can name: the email_id of the call, or another   *)
EmailIds == {"own", "other"}

(* the ids in _email_history of the EmailService a query reaches: the      *)
(* object that ran send_email() for a direct call; for a request to the    *)
(* status endpoint, the new EmailService get_email_service() makes for it  *)
RecordedIds(s) == IF s.entry = "direct" /\ s.entry_made THEN {"own"} ELSE {}

(* get_email_status(): the status of the entry, None when there is none    *)
status_of_any_id(ids, status, id) == status

status_of(ids, status, id) == IF id \in ids THEN status ELSE "None"

(* the status endpoint: 404 for None                                       *)
status_http(status) == IF status = "None" THEN 404 ELSE 200

(* a status query once the call is over                                    *)
GetEmailStatus ==
    /\ \/ svc.pc = "returned" /\ svc.entry = "direct"
       \/ svc.pc = "responded"
    /\ svc.queried = "none"
    /\ \E id \in EmailIds :
         LET status == status_of(RecordedIds(svc), svc.status, id) IN
         svc' = [svc EXCEPT !.queried = status, !.queried_id = id,
                            !.query_http = IF svc.entry = "route" THEN status_http(status)
                                           ELSE 0]
    /\ UNCHANGED sframe

NextService ==
    \/ RouteReceive
    \/ RouteRespond
    \/ SvcValidate
    \/ SvcPrepare
    \/ SvcProfileName
    \/ SvcLaunch
    \/ SvcGetPage
    \/ SvcConnect
    \/ SvcSend
    \/ SvcFinally
    \/ ApiPrepare
    \/ ApiConnect
    \/ ApiSend
    \/ ApiFinally
    \/ GetEmailStatus

SpecService == InitService /\ [][NextService]_vars

(* ===================== GmailMailer: call sequences ===================== *)
(* calls made on one mailer                                                *)
MaxMailerCalls == 3

(* the helpers of send_email(), in the order of its if statements          *)
SendSteps == <<"compose", "recipient", "subject", "body", "send">>

InitSession ==
    /\ NoSession
    /\ InitRest
    /\ RestIdle
    /\ ConnIdle
    /\ SvcIdle
    /\ ProfIdle
    /\ ListingIdle
    /\ ses = NewSes("ready")

(* connect_to_gmail(): with a page already there it does not launch        *)
SesConnect ==
    /\ ses.pc = "ready"
    /\ Len(ses.ops) < MaxMailerCalls
    /\ \E o \in ConnectOutcomes :
         /\ ses.page => o \notin {"launch_false", "no_page"}
         /\ ses' = [connect_to_gmail(ses, o) EXCEPT
                      !.ops = Append(@, IF o = "connected" THEN "connected" ELSE "connect")]
    /\ UNCHANGED eframe

(* close() and terminate() end with self._is_connected = False             *)
still_connected(flag) == flag

disconnected(flag) == FALSE

SesClose ==
    /\ ses.pc = "ready"
    /\ Len(ses.ops) < MaxMailerCalls
    /\ ses' = [ses EXCEPT !.is_connected = disconnected(@), !.ops = Append(@, "close")]
    /\ UNCHANGED eframe

SesTerminate ==
    /\ ses.pc = "ready"
    /\ Len(ses.ops) < MaxMailerCalls
    /\ ses' = [ses EXCEPT !.is_connected = disconnected(@), !.ops = Append(@, "terminate")]
    /\ UNCHANGED eframe

(* the helper a send_email() call begins with, whatever the last call did  *)
resume_step(failed_at) == IF failed_at = 0 THEN 1 ELSE failed_at

first_step(failed_at) == 1

(* send_email() up to its first helper: the guard on _is_connected and page *)
SesSendStart ==
    /\ ses.pc = "ready"
    /\ Len(ses.ops) < MaxMailerCalls
    /\ LET called == [ses EXCEPT !.ops = Append(@, "send_email"), !.steps = <<>>,
                                 !.results = <<>>, !.result = "none"] IN
       ses' = IF ~ses.is_connected \/ ~ses.page
              THEN [called EXCEPT !.result = "false"]
              ELSE [called EXCEPT !.pc = "sending", !.at = first_step(ses.failed_at)]
    /\ UNCHANGED eframe

(* one helper: it returns true or false, or raises into the except of      *)
(* send_email()                                                            *)
SesStep ==
    /\ ses.pc = "sending"
    /\ \E r \in {"true", "false", "raise"} :
         LET ran == [ses EXCEPT !.steps = Append(@, SendSteps[ses.at]),
                                !.results = Append(@, r)] IN
         ses' = IF r # "true"
                THEN [ran EXCEPT !.pc = "ready", !.result = "false", !.failed_at = ses.at]
                ELSE IF ses.at = Len(SendSteps)
                THEN [ran EXCEPT !.pc = "ready", !.result = "true", !.failed_at = 0]
                ELSE [ran EXCEPT !.at = @ + 1]
    /\ UNCHANGED eframe

NextSession ==
    \/ SesConnect
    \/ SesClose
    \/ SesTerminate
    \/ SesSendStart
    \/ SesStep

SpecSession == InitSession /\ [][NextSession]_vars

(* ======================= Chrome profile selection ====================== *)
(* the profile names a caller can pass ("" stands for None) and the ones   *)
(* discovery can find next to Default, which it always lists               *)
RequestedNames == {"", "Default", "Profile 1", "Profile 2", "Work"}

DiscoveredSets == { {"Default"} \cup d : d \in SUBSET {"Profile 1", "Profile 2"} }

(* a launcher of either variant built with a BrowserConfig, which has no   *)
(* profile_name attribute and rejects assignments to unknown fields, or    *)
(* with a config object that has the attribute                             *)
InitProfile ==
    /\ NoSession
    /\ InitRest
    /\ RestIdle
    /\ ConnIdle
    /\ SvcIdle
    /\ SesIdle
    /\ ListingIdle
    /\ prof \in { NewProf("new", v, "BrowserConfig", "absent", r, d) :
                    v \in {"launchers", "lunchers"}, r \in RequestedNames,
                    d \in DiscoveredSets }
                \cup { NewProf("new", v, "profiled", c, r, d) :
                    v \in {"launchers", "lunchers"}, c \in {"", "Default", "Profile 1"},
                    r \in RequestedNames, d \in DiscoveredSets }

(* "Profile 2" if "Profile 2" in profiles else "Default"                   *)
preferred_profile(discovered) == IF "Profile 2" \in discovered THEN "Profile 2" ELSE "Default"

(* launchers.py: the source profile, from self.config.profile_name         *)
setup_chrome_automation_profile(cfg, discovered) ==
    IF cfg # "absent" /\ cfg # "Default"
    THEN IF cfg \in discovered THEN cfg ELSE "Default"
    ELSE preferred_profile(discovered)

(* lunchers.py: the source profile, from the profile_name argument         *)
setup_chrome_profile(profile_name, discovered) ==
    IF profile_name # "" /\ profile_name # "Default" /\ profile_name \in discovered
    THEN profile_name
    ELSE preferred_profile(discovered)

(* launch() up to the profile setup: a profile name other than Default is  *)
(* written to self.config.profile_name; on a BrowserConfig the assignment  *)
(* raises ValueError and launch() returns False                            *)
ProfLaunch ==
    /\ prof.pc = "new"
    /\ prof' = IF prof.requested \in {"", "Default"}
               THEN [prof EXCEPT !.pc = "setup"]
               ELSE IF prof.config = "profiled"
               THEN [prof EXCEPT !.pc = "setup", !.cfg = prof.requested]
               ELSE [prof EXCEPT !.pc = "failed"]
    /\ UNCHANGED fframe

(* the profile setup of the variant chooses the source profile             *)
ProfSetup ==
    /\ prof.pc = "setup"
    /\ prof' = [prof EXCEPT !.pc = "set_up",
                            !.source = IF prof.variant = "launchers"
                                       THEN setup_chrome_automation_profile(prof.cfg,
                                                                            prof.discovered)
                                       ELSE setup_chrome_profile(prof.requested,
                                                                 prof.discovered)]
    /\ UNCHANGED fframe

NextProfile ==
    \/ ProfLaunch
    \/ ProfSetup

SpecProfile == InitProfile /\ [][NextProfile]_vars

(* ============================== claims ================================= *)
Launched(s) == hist[s].lastOp \notin {"none", "construct"}

SpawnedByLaunch(s) == Len(procs[s]) - hist[s].procBase

DirsMadeByLaunch(s) == Len(tmpdirs[s]) - hist[s].dirBase

HandlesNull(l) == ~l.playwright /\ ~l.browser /\ ~l.context

(* C1: once terminate() has completed on a session whose launch() ran      *)
(* (successfully or not), none of the temporary automation profile         *)
(* directories the session created exists any more.                        *)
C1_NoLeakedTempDir ==
    \A s \in Sessions :
        (hist[s].lastOp = "terminate" /\ hist[s].result # "none")
            => \A d \in 1..Len(tmpdirs[s]) : ~tmpdirs[s][d]

(* C2: every process killed by the kill-by-port scan run with port p has   *)
(* a command line that advertises exactly port p.                          *)
C2_NoCrossPortKill ==
    \A pid \in Pids(procs) :
        LET p == procs[pid[1]][pid[2]] IN p.killPort # None => p.port = p.killPort

(* C3: two send requests that have both launched use different debug       *)
(* ports, and no browser process spawned by one of them is killed by the   *)
(* other's launch() or terminate().                                        *)
C3_ConcurrentRequestsIsolated ==
    \A s, t \in Sessions :
        (s # t /\ IsSendRequest(launcher[s]) /\ IsSendRequest(launcher[t])
             /\ Launched(s) /\ Launched(t))
            => /\ launcher[s].debug_port # launcher[t].debug_port
               /\ \A i \in 1..Len(procs[t]) : procs[t][i].killer # s

(* C4: launch() spawns its browser only when no live process of the same   *)
(* browser still answers on the requested debug port.                      *)
C4_PortFreeBeforeSpawn ==
    \A s \in Sessions : \A i \in 1..Len(procs[s]) : ~procs[s][i].busyAtSpawn

(* C5: a launch() call spawns at most one browser subprocess, and a        *)
(* launch() that returned true spawned exactly one.                        *)
C5_OneSpawnPerLaunch ==
    \A s \in Sessions :
        /\ SpawnedByLaunch(s) <= 1
        /\ hist[s].result = "true" => SpawnedByLaunch(s) = 1

C5_Witness ==
    \E s \in Sessions : hist[s].lastOp = "launch" /\ hist[s].result = "true"
                          /\ SpawnedByLaunch(s) = 1 /\ Len(procs[s]) = 2

(* C6: a terminate() on a session whose last completed operation was       *)
(* terminate() changes no session field, no process and no directory.      *)
C6_SecondTerminateNoOp ==
    [][\A s \in Sessions :
          (hist[s].lastOp = "terminate" /\ Terminate(s))
              => UNCHANGED <<launcher, mailer, procs, tmpdirs>>]_vars

(* C7: after terminate() no process spawned by the session is alive and    *)
(* the process handle, the automation client, the browser and the context  *)
(* handles are null.                                                       *)
C7_TerminateKillsSubprocess ==
    \A s \in Sessions :
        hist[s].lastOp = "terminate"
            => /\ \A i \in 1..Len(procs[s]) : ~procs[s][i].alive
               /\ launcher[s].browser_process = None
               /\ HandlesNull(launcher[s])

(* C8: a page handle (the launcher's or the mailer's) is non-null only     *)
(* while the browser and context handles are non-null, and after close()   *)
(* or terminate() every handle is null.                                    *)
C8_PageOnlyWhileAttached ==
    \A s \in Sessions :
        /\ (launcher[s].page \/ mailer[s].page)
              => (launcher[s].browser /\ launcher[s].context)
        /\ hist[s].lastOp \in {"close", "terminate"}
              => (HandlesNull(launcher[s]) /\ ~launcher[s].page /\ ~mailer[s].page)

(* C9: a launch() that failed returned false and left the automation       *)
(* client, the browser and the context handles null.                       *)
C9_FailedLaunchLeavesNoHandles ==
    \A s \in Sessions :
        (hist[s].lastOp = "launch" /\ hist[s].result = "false")
            => HandlesNull(launcher[s])

(* C10: when the browser executable is not found, a launch() that ran      *)
(* returned false, and no subprocess was spawned and no temporary profile  *)
(* directory was created (launchers.py: the constructor already fails,     *)
(* before its mkdtemp).                                                    *)
C10_NoExecutableNoSideEffects ==
    \A s \in Sessions :
        hist[s].exe = "missing"
            => /\ hist[s].lastOp \notin {"launching"}
               /\ hist[s].result # "true"
               /\ Launched(s) => hist[s].result = "false"
               /\ SpawnedByLaunch(s) = 0
               /\ DirsMadeByLaunch(s) = 0
               /\ launcher[s].variant = "launchers"
                    => (launcher[s].pc = "ctor_failed" /\ tmpdirs[s] = <<>> /\ procs[s] = <<>>)

C10_Witness ==
    \E s \in Sessions :
        /\ launcher[s].variant = "lunchers"
        /\ hist[s].exe = "missing"
        /\ hist[s].lastOp = "launch"
        /\ hist[s].result = "false"
        /\ Len(tmpdirs[s]) = 1

(* C11: a send click happens only after the compose click, the recipient   *)
(* fill, the subject fill and the body fill of this call all returned      *)
(* true; once one of them has returned false, send_email() has returned    *)
(* false and the send step is never entered.                               *)
C11_SendOnlyAfterAllFills ==
    /\ (trail.send_clicks > 0 \/ gm.pc = "send" \/ trail.send # "none")
          => \A st \in {"compose", "recipient", "subject", "body"} : trail[st] = "true"
    /\ (\E st \in {"compose", "recipient", "subject", "body"} : trail[st] = "false")
          => (gm.result = "false" /\ trail.send_clicks = 0 /\ gm.pc \in {"exit", "done"})

C11_Witness ==
    /\ gm.pc = "done"
    /\ trail.compose = "true" /\ trail.recipient = "true" /\ trail.subject = "true"
    /\ trail.body = "false"
    /\ gm.result = "false"

(* C12: when the recipient fill or the subject fill (Tab path or selector  *)
(* path) has returned true, the field was read back after the fill and the *)
(* field holds a value that contains the intended one.                     *)
C12_FillSuccessIsVerified ==
    /\ trail.recipient = "true"
          => (trail.to_read = "ok" /\ dom.to # <<>> /\ IsSubstring(gm.to, dom.to))
    /\ trail.subject = "true"
          => (trail.subject_read = "ok" /\ dom.subject # <<>>
                /\ IsSubstring(gm.subject, dom.subject))

C12_Witness ==
    /\ trail.recipient = "true" /\ dom.to = <<"<">> \o gm.to \o <<">">>
    /\ trail.subject = "true" /\ trail.via = "tab" /\ dom.subject = gm.subject

(* C13: when the body fill has returned true, the body element's text was  *)
(* read back after the fill and contains the first 20 characters of the    *)
(* intended body; it has not returned true after a readback that raised.   *)
C13_BodySuccessIsVerified ==
    trail.body = "true"
        => (trail.body_read = "ok" /\ dom.body # <<>> /\ IsSubstring(Prefix(gm.body), dom.body))

(* C14: the compose click tries its selectors in list order, none twice,   *)
(* tries none after a click that succeeded, and returns false exactly when *)
(* every selector was skipped or failed.                                   *)
C14_ComposeSelectorOrder ==
    /\ \A j \in 1..Len(trail.tried) : trail.tried[j] = j
    /\ Len(trail.clicked) <= 1
    /\ Len(trail.clicked) = 1 => trail.tried[Len(trail.tried)] = trail.clicked[1]
    /\ trail.compose = "false" <=> trail.skipped = 1..NumComposeSelectors

(* C15: when the send button was clicked and each confirmation indicator   *)
(* was waited for without appearing, the send step and send_email() have   *)
(* returned true.                                                          *)
C15_OptimisticSend ==
    (trail.send_clicks > 0 /\ trail.indicators = "timeout")
        => (trail.send = "true" /\ gm.result = "true")

C15_Witness ==
    /\ gm.pc = "done"
    /\ trail.send_clicks = 1 /\ trail.indicators = "timeout"
    /\ gm.result = "true"

(* C20: with the mailer used through async with, terminate() has run       *)
(* exactly once when the block has been left - after a failed connect,     *)
(* after send_email() returned false and after the body raised - and not   *)
(* before.                                                                 *)
C20_TerminateOnceOnExit ==
    /\ gm.pc = "done" => trail.terminates = 1
    /\ gm.pc \notin {"done", "idle"} => trail.terminates = 0

C20_Witness ==
    /\ gm.pc = "done"
    /\ gm.result = "raised"
    /\ trail.entered = "connected"
    /\ trail.terminates = 1
    /\ ~gm.is_connected

(* C18: every browser process a session spawned was given a temporary      *)
(* directory made by that session as its profile directory, never the      *)
(* user's original profile directory, and profile setup has only read from *)
(* the original profile directory.                                         *)
C18_OriginalProfileUntouched ==
    \A s \in Sessions :
        /\ \A i \in 1..Len(procs[s]) :
              /\ procs[s][i].profile_dir # OriginalDir
              /\ procs[s][i].profile_dir[1] = s
              /\ procs[s][i].profile_dir[2] \in 1..Len(tmpdirs[s])
        /\ hist[s].original_ops \subseteq {"exists", "listdir", "isdir", "copy2_source"}

C18_Witness ==
    \E s \in Sessions :
        /\ launcher[s].family = "chrome"
        /\ hist[s].result = "true"
        /\ Len(procs[s]) = 2
        /\ procs[s][2].alive
        /\ hist[s].original_ops # {}
        /\ \E pid \in Live(procs) : procs[pid[1]][pid[2]].profile_dir = OriginalDir

(* C19: close() leaves the automation client, the browser and the context  *)
(* handles null, and changes neither the process table nor the process     *)
(* handle.                                                                 *)
C19_CloseKeepsProcess ==
    [][\A s \in Sessions :
          Close(s) => /\ HandlesNull(launcher'[s])
                      /\ launcher'[s].browser_process = launcher[s].browser_process
                      /\ procs' = procs]_vars

C19_Witness ==
    \E s \in Sessions :
        /\ hist[s].lastOp = "close"
        /\ hist[s].result = "true"
        /\ HandlesNull(launcher[s])
        /\ launcher[s].browser_process # None
        /\ procs[s][launcher[s].browser_process].alive

(* C17: for a browser outside {chrome, firefox} the configuration cannot   *)
(* be built, and on an OS outside {Windows, Linux} the launcher's          *)
(* constructor raises; in both cases the session has spawned no process    *)
(* and created no temporary directory.                                     *)
Unsupported(l) == l.family \notin Families \/ os_type(l.platform) \notin {"linux", "windows"}

C17_UnsupportedFailsEarly ==
    \A s \in Sessions :
        LET l == launcher[s] IN
        (l.pc \notin {"new", "absent"} /\ Unsupported(l))
            => /\ procs[s] = <<>>
               /\ tmpdirs[s] = <<>>
               /\ (l.variant = "launchers" \/ l.family \notin Families) => l.pc = "ctor_failed"

C17_Witness ==
    \E s \in Sessions :
        /\ launcher[s].variant = "launchers"
        /\ launcher[s].family = "firefox"
        /\ launcher[s].platform = "darwin"
        /\ launcher[s].pc = "ctor_failed"
        /\ hist[s].failedAt = "os"

(* C16: the list get_available_profiles() returns has the default entry    *)
(* ("Default" for Chrome; "default" in any letter case for Firefox) at     *)
(* index 0 and nowhere else, whatever the directories hold and also when   *)
(* reading one of them raises.                                             *)
IsDefaultEntry(browser, name) ==
    IF browser = "firefox" THEN Lower(name) = <<"default">> ELSE name = <<"Default">>

Scanned == scan.pc = "returned" /\ scan.impl = "ProfileManager"

C16_DefaultOnceAndFirst ==
    Scanned
        => /\ Len(scan.result) >= 1
           /\ IsDefaultEntry(scan.browser, scan.result[1])
           /\ \A i \in 2..Len(scan.result) : ~IsDefaultEntry(scan.browser, scan.result[i])

(* C23 as stated: every debug-port probe, in every variant, returns true   *)
(* exactly when no connection to the port can be made and false exactly    *)
(* when the connection succeeds.                                           *)
C23_ProbeTrueIffPortFree ==
    wait.probes > 0 => (wait.last.result <=> ~Accepts(wait.last.listener))

(* C23 amended: the socket probe of process_managers.py returns true        *)
(* exactly when the connect fails; the HTTP probes of launchers.py and      *)
(* lunchers.py return true exactly when a DevTools endpoint answers        *)
(* /json/version with 200, and false when nothing listens or anything else *)
(* answers.                                                                *)
C23_ProbePolarityPerVariant ==
    wait.probes > 0 =>
        IF wait.last.impl = "process_managers"
        THEN wait.last.result <=> ~Accepts(wait.last.listener)
        ELSE wait.last.result <=> (wait.last.listener = "debug")

C23_Witness ==
    /\ wait.last.impl = "launchers"
    /\ wait.last.listener = "debug"
    /\ wait.last.result

(* C24: the wait makes at most 20 probes, makes none after the first probe *)
(* that succeeded, and when all 20 fail launch() fails and the spawned     *)
(* process, if still running, has been sent a terminate signal.            *)
C24_BoundedWaitThenTerminate ==
    wait.variant \in {"launchers", "lunchers"} =>
        /\ wait.probes <= max_retries
        /\ wait.first_ok # 0 => (wait.probes = wait.first_ok /\ wait.pc = "ready")
        /\ wait.pc = "failed" => (wait.probes = max_retries /\ wait.first_ok = 0)
        /\ (wait.pc = "failed" /\ wait.proc # "exited") => wait.signalled

(* C25: a get_page() call returns None when the browser or the context     *)
(* handle is null; otherwise, on the first such call, it returns the first *)
(* existing tab of the context if there is one and creates a tab only if   *)
(* there is none; every later call returns that same page and creates no   *)
(* tab.                                                                    *)
C25_GetPageReusesFirstTab ==
    [][ctx'.calls # ctx.calls =>
         IF ~ctx.browser \/ ~ctx.context
         THEN ctx'.ret = 0 /\ ctx'.created = ctx.created /\ ctx'.pages = ctx.pages
         ELSE IF ctx.page # 0
         THEN /\ ctx'.ret = ctx.page
              /\ ctx'.created = ctx.created
              /\ ctx'.pages = ctx.pages
         ELSE IF ctx.pages # <<>>
         THEN /\ ctx'.ret = ctx.pages[1]
              /\ ctx'.created = ctx.created
              /\ ctx'.pages = ctx.pages
         ELSE ctx'.ret \in {-1, ctx.next_id}]_vars

C25_Witness ==
    /\ ctx.calls >= 2
    /\ ctx.browser
    /\ ctx.ret = 1
    /\ ctx.created = 0
    /\ Len(ctx.pages) >= 2

(* C26: when connect_to_gmail() found a login form, it returns true only   *)
(* after the wait for the compose button ended with the button there; when *)
(* that wait timed out it returns false and a mailer that was not          *)
(* connected is still not connected.                                       *)
C26_LoginWaitGatesConnect ==
    (conn.pc = "returned" /\ conn.login_seen) =>
        /\ conn.result = "true" => conn.login_wait = "appeared"
        /\ conn.login_wait = "timeout" =>
             (conn.result = "false" /\ (~conn.connected_before => ~conn.is_connected))

C26_Witness ==
    /\ conn.pc = "returned"
    /\ conn.login_seen
    /\ conn.login_wait = "timeout"
    /\ conn.result = "false"
    /\ ~conn.is_connected

(* C27: the goto attempts of a connect_to_gmail() call are made in the     *)
(* order network-idle, DOM-content-loaded, no-wait; an attempt is made     *)
(* only after every earlier one failed; and the call fails because of      *)
(* navigation only when all three failed.                                  *)
C27_NavigationEscalates ==
    /\ Len(conn.navs) <= Len(nav_strategies)
    /\ \A k \in 1..Len(conn.navs) :
         /\ conn.navs[k].strategy = nav_strategies[k]
         /\ k < Len(conn.navs) => ~conn.navs[k].ok
    /\ conn.failedAt = "navigation" <=>
         (Len(conn.navs) = Len(nav_strategies) /\ \A k \in 1..Len(conn.navs) : ~conn.navs[k].ok)

C27_Witness ==
    /\ conn.pc = "returned"
    /\ Len(conn.navs) = 3
    /\ conn.navs[3].ok
    /\ conn.result = "true"

(* the default list of a browser                                           *)
DefaultList(browser) == IF browser = "firefox" THEN <<<<"default">>>> ELSE <<<<"Default">>>>

ScanHitError == \E k \in 1..Len(scan.dirs) : scan.dirs[k].state = "error"

(* C28 as stated: a profile scan that hit an IO error returns (it does not *)
(* raise), and what it returns is exactly the single-element default list. *)
C28_ErrorGivesDefaultList ==
    (scan.pc = "returned" /\ ScanHitError) => scan.result = DefaultList(scan.browser)

(* the directories of a scan that could be read                            *)
ReadableDirs(dirs) == SelectSeq(dirs, LAMBDA d : d.state # "error")

(* C28 amended: a profile scan that hit an IO error returns, and what it   *)
(* returns is what the scan of the other directories alone returns: the    *)
(* unreadable directory contributes nothing, and the result is the         *)
(* single-element default list when only one directory is scanned.         *)
C28_ErrorDirContributesNothing ==
    (scan.pc = "returned" /\ ScanHitError) =>
        /\ scan.impl = "ProfileManager" =>
             scan.result = get_available_profiles(scan.browser, ReadableDirs(scan.dirs))
        /\ Len(scan.dirs) = 1 => scan.result = DefaultList(scan.browser)

C28_Witness ==
    /\ scan.pc = "returned"
    /\ scan.impl = "ProfileManager"
    /\ scan.browser = "chrome"
    /\ Len(scan.dirs) = 2
    /\ scan.dirs[1].state = "error"
    /\ scan.dirs[1].items # <<>>
    /\ scan.result = << <<"Default">>, <<"Profile 1">> >>

(* the failures of send_email() C21 and C22 speak of: the launch, the page *)
(* acquisition, the Gmail connect, the send                                *)
StepFailures == {"launch", "page", "page_raise", "connect", "send"}

(* C21: in send_email() of services/email_service.py, when the launch, the *)
(* page acquisition, the Gmail connect or the send has failed, an exception *)
(* has left send_email only after mailer.terminate() was called, and that  *)
(* exception is a typed one.                                               *)
C21_TerminateBeforeRaise ==
    (svc.variant = "services" /\ svc.failed \in StepFailures)
        => /\ svc.leaving # "none" => (svc.terminates = 1 /\ svc.leaving \in TypedExceptions)
           /\ svc.pc \in {"returned", "responded"} => svc.leaving # "none"

C21_Witness ==
    /\ svc.variant = "services"
    /\ svc.pc = "returned"
    /\ svc.failed = "launch"
    /\ svc.terminates = 1
    /\ svc.leaving = "BrowserLaunchException"

(* the failures that are no failure kind of their own: an exception nobody *)
(* raised on purpose                                                       *)
UnexpectedFailures == {"request", "attribute", "ctor", "page_raise"}

(* C22: once the send-email route has answered, a request rejected by      *)
(* validate_email_format has ended as EmailValidationException and HTTP    *)
(* 400, a launch or page failure as 503, a Gmail connection failure as     *)
(* 502, and the status is 500 only after an unexpected error.              *)
C22_StatusPerFailureKind ==
    (svc.pc = "responded" /\ svc.variant = "services")
        => /\ svc.failed = "validation"
                => (svc.leaving = "EmailValidationException" /\ svc.http = 400)
           /\ svc.failed \in {"launch", "page"} => svc.http = 503
           /\ svc.failed = "connect" => svc.http = 502
           /\ svc.http = 500 => svc.failed \in UnexpectedFailures

(* C29: when the Gmail connect or send of the api variant has reported     *)
(* failure or raised, send_email() has not raised: it has returned an      *)
(* EmailResponse with success=false and a failure or error message.        *)
C29_ApiReturnsFailureResponse ==
    (svc.variant = "api" /\ svc.pc = "returned"
            /\ svc.failed \in {"connect", "send", "send_raise"})
        => /\ svc.leaving = "none"
           /\ svc.resp = (CASE svc.failed = "connect" -> "connect_failed"
                            [] svc.failed = "send" -> "send_failed"
                            [] OTHER -> "error")

C29_Witness ==
    /\ svc.variant = "api"
    /\ svc.pc = "returned"
    /\ svc.failed = "send_raise"
    /\ svc.closes = 1
    /\ svc.leaving = "none"
    /\ svc.resp = "error"

(* C30: the EmailResponse send_email() of the api variant has returned     *)
(* carries a non-null email_id when the send succeeded, and a null         *)
(* email_id when it failed or raised.                                      *)
C30_EmailIdOnlyOnSuccess ==
    (svc.variant = "api" /\ svc.pc = "returned" /\ svc.resp # "none")
        => (svc.resp_id <=> svc.resp = "sent")

C38_OneLaunchPerRequest ==
    svc.variant = "services" => svc.launches <= 1

C38_Witness ==
    /\ svc.variant = "services"
    /\ svc.pc = "returned"
    /\ svc.resp = "sent"
    /\ svc.page
    /\ svc.launches = 1

(* C40: once send_email() of services/email_service.py has returned or     *)
(* raised, the history entry of its email_id exists with status sent,      *)
(* error or failed, and the status is sent exactly when a success response *)
(* was returned.                                                           *)
C40_HistoryFinalStatus ==
    (svc.variant = "services" /\ svc.pc \in {"returned", "responded"}
            /\ svc.failed \notin {"form", "request"})
        => /\ svc.entry_made
           /\ svc.status \in {"sent", "error", "failed"}
           /\ svc.status = "sent" <=> svc.resp = "sent"

(* C32: the helpers a send_email() call has run are a prefix of compose,   *)
(* recipient, subject, body, send, each once; every one before the last    *)
(* returned true; and this also holds of a call that follows a failed one: *)
(* it starts again at compose.                                             *)
C32_StepsInOrder ==
    LET n == Len(ses.steps) IN
    /\ n <= Len(SendSteps)
    /\ Len(ses.results) = n
    /\ \A i \in 1..n : ses.steps[i] = SendSteps[i]
    /\ \A i \in 1..(n - 1) : ses.results[i] = "true"
    /\ ses.pc = "sending" => (ses.at = n + 1 /\ \A i \in 1..n : ses.results[i] = "true")

C32_Witness ==
    /\ ses.ops = <<"connected", "send_email", "send_email">>
    /\ ses.failed_at = 3
    /\ ses.pc = "sending"
    /\ ses.steps = <<"compose">>

(* a connect_to_gmail() call succeeded before call k and no close() or     *)
(* terminate() came between                                                *)
ConnectedBefore(ops, k) ==
    \E i \in 1..(k - 1) :
        /\ ops[i] = "connected"
        /\ \A j \in (i + 1)..(k - 1) : ops[j] \notin {"close", "terminate"}

(* C33: a send_email() call made while the mailer is not connected, before *)
(* any successful connect_to_gmail() or after a close() or terminate()     *)
(* with no successful connect since, has returned false without running a  *)
(* helper.                                                                 *)
C33_NotConnectedNoInteraction ==
    LET k == Len(ses.ops) IN
    (k >= 1 /\ ses.ops[k] = "send_email" /\ ~ConnectedBefore(ses.ops, k))
        => (ses.pc = "ready" /\ ses.result = "false" /\ ses.steps = <<>>)

C33_Witness ==
    /\ ses.ops = <<"connected", "terminate", "send_email">>
    /\ ses.page
    /\ ses.result = "false"
    /\ ses.steps = <<>>

C37_SameSourceProfile ==
    prof.pc = "set_up"
        => /\ prof.source = setup_chrome_automation_profile(prof.cfg, prof.discovered)
           /\ prof.source = setup_chrome_profile(prof.requested, prof.discovered)
           /\ (prof.requested \notin prof.discovered \cup {""}) => prof.source = "Default"

(* C39: every BrowserProfile returned by get_available_profiles(browser_type) *)
(* has a name that was discovered for its own browser type: a Firefox      *)
(* listing holds no name taken from the Chrome profile root                *)
C39_NamesOfOwnBrowser ==
    listing.pc = "returned" =>
        \A i \in 1..Len(listing.profiles) :
            listing.profiles[i].name \in
                Range(get_available_profiles(listing.profiles[i].browser_type,
                          profile_dirs_of(listing.profiles[i].browser_type,
                                          listing.chrome_dir, listing.firefox_dir)))

(* C35: every browser process this code launched with debug port p, with   *)
(* the Chrome or the Firefox argument vector, is matched by the            *)
(* kill-by-port filter for port p (the per-argument search of launchers.py *)
(* and the joined search of process_managers.py)                           *)
C35_LaunchedMatchedByPortFilter ==
    \A pid \in Pids(procs) :
        pid[1] \in Sessions =>
            LET p == procs[pid[1]][pid[2]] IN
              /\ PortFilterMatch(p.port, CmdLine(p))
              /\ JoinedFilterMatch(p.port, CmdLine(p))

(* C34: across launch(), close() and terminate() calls on one launcher of  *)
(* launchers.py, every subprocess it spawned that is still alive is the    *)
(* one its current process handle refers to: no spawned process is         *)
(* orphaned by overwriting or dropping the handle                          *)
C34_NoOrphanedSubprocess ==
    \A s \in Sessions :
        launcher[s].variant = "launchers" =>
            \A i \in 1..Len(procs[s]) :
                procs[s][i].alive => launcher[s].browser_process = i

====
